---- MODULE Spec2Model ----
(***************************************************************************)
(* The report engine of the DeFi security toolkit                          *)
(* (src/backend/report_generator.py): the aggregation of the Slither and   *)
(* Mythril adapters' findings by ReportGenerator._filter_vulnerabilities,  *)
(* the section templates, the Markdown and JSON renderers and              *)
(* generate_report itself; and the flash loan simulation of the attack     *)
(* simulator (src/backend/attack_simulator.py).                            *)
(*                                                                         *)
(* Python strings that the code transforms or searches (severities,        *)
(* titles, section names, format names, texts) are tuples of one-character *)
(* strings, so that lower(), capitalize(), replace() and `in` are computed *)
(* character by character.  Python dicts are functions whose domain is the *)
(* set of keys present; dict keys and the tags of the model's own records  *)
(* are TLA+ strings.  A rendered Markdown section is the record of the     *)
(* values its f-strings interpolate, in the order the text carries them.   *)
(***************************************************************************)
EXTENDS Integers, Sequences, FiniteSets, TLC

VARIABLES
    analysis_results,         \* the caller's dict handed to generate_report
    inserted,                 \* the keys of analysis_results in insertion order
    clock,                    \* the time datetime.now() reads, in ticks
    call,                     \* the arguments of the call in progress / just returned
    filtered_vulnerabilities, \* generate_report's local (line 29)
    result,                   \* what the call returned or raised; "none" once consumed
    previous,                 \* an earlier call and its report, kept by the caller
    simulations               \* AttackSimulator.simulations, the simulator's history

vars == <<analysis_results, inserted, clock, call, filtered_vulnerabilities, result, previous,
          simulations>>

(***************************************************************************)
(* Bounds of the model.                                                    *)
(***************************************************************************)
\* findings over both adapter streams in Spec and SpecRec
MaxIssues == 2
\* Critical findings, and findings of each other severity, in SpecRisk
MaxCritical == 11
MaxOther == 1
\* ticks of the clock in a second, and the last tick of SpecRepeat
TicksPerSecond == 2
MaxClock == 2
\* findings over both adapter streams in SpecRepeat, SpecArrival and SpecSections
MaxFew == 1
\* the most Critical/High findings, and the most Medium findings, of a listing
MaxListed == 6
\* the most simulations the simulator's history holds
MaxSimulations == 2

(***************************************************************************)
(* Python str and dict operations.                                         *)
(***************************************************************************)
LowerChars == <<"a","b","c","d","e","f","g","h","i","j","k","l","m","n","o","p","q","r","s","t","u","v","w","x","y","z">>
UpperChars == <<"A","B","C","D","E","F","G","H","I","J","K","L","M","N","O","P","Q","R","S","T","U","V","W","X","Y","Z">>
Digits == <<"0","1","2","3","4","5","6","7","8","9">>

Position(c, chars) == IF \E i \in 1..Len(chars) : chars[i] = c
                      THEN CHOOSE i \in 1..Len(chars) : chars[i] = c
                      ELSE 0

\* the lower-case letter of every upper-case letter, and the reverse
LowerOf == [c \in {UpperChars[i] : i \in 1..Len(UpperChars)} |-> LowerChars[Position(c, UpperChars)]]
UpperOf == [c \in {LowerChars[i] : i \in 1..Len(LowerChars)} |-> UpperChars[Position(c, LowerChars)]]

LowerChar(c) == IF c \in DOMAIN LowerOf THEN LowerOf[c] ELSE c

UpperChar(c) == IF c \in DOMAIN UpperOf THEN UpperOf[c] ELSE c

\* str.lower()
lower(s) == [i \in 1..Len(s) |-> LowerChar(s[i])]

\* str.capitalize(): first character upper-cased, the rest lower-cased
capitalize(s) == IF s = <<>> THEN <<>> ELSE <<UpperChar(s[1])>> \o lower(Tail(s))

\* str.replace(old, new) for one-character old and new
replace(s, old, new) == [i \in 1..Len(s) |-> IF s[i] = old THEN new ELSE s[i]]

\* word in s (substring)
Contains(s, word) ==
    \/ word = <<>>
    \/ \E i \in 1..(Len(s) - Len(word) + 1) :
          s[i] = word[1] /\ SubSeq(s, i, i + Len(word) - 1) = word

\* d.get(key, default)
Get(d, key, default) == IF key \in DOMAIN d THEN d[key] ELSE default

\* d[key] = value
SetItem(d, key, value) == [k \in DOMAIN d \cup {key} |-> IF k = key THEN value ELSE d[k]]

\* the value None, and a key that the dict analysis_results does not hold
None == [py_type |-> "NoneType"]
Absent == [py_type |-> "absent"]

IsNone(x) == DOMAIN x = {"py_type"} /\ x.py_type = "NoneType"

\* key in analysis_results
HasKey(results, key) == results[key] # Absent

RECURSIVE SumSeq(_)
SumSeq(s) == IF s = <<>> THEN 0 ELSE Head(s) + SumSeq(Tail(s))

SeqsUpTo(S, n) == UNION {[1..k -> S] : k \in 0..n}

(***************************************************************************)
(* ReportGenerator._filter_vulnerabilities (lines 55-75).                  *)
(***************************************************************************)
\* the test of lines 63 and 71 with `in` answering wrongly for every member
RetainedAlways(vuln, severity_filter) == TRUE

\* the test of lines 63 and 71 without capitalize()
RetainedAsSpelled(vuln, severity_filter) == Get(vuln, "severity", <<>>) \in severity_filter

\* lines 63 and 71: vuln.get('severity', '').capitalize() in severity_filter
Retained(vuln, severity_filter) == capitalize(Get(vuln, "severity", <<>>)) \in severity_filter

\* one of the two loops with 'Slither' written as the source in both
FilterStreamOneTag(vulns, severity_filter, tool) ==
    LET tagged == [i \in 1..Len(vulns) |->
                      IF capitalize(Get(vulns[i], "severity", <<>>)) \in severity_filter
                      THEN SetItem(vulns[i], "source", <<"S","l","i","t","h","e","r">>)
                      ELSE vulns[i]]
        keep(v) == capitalize(Get(v, "severity", <<>>)) \in severity_filter
    IN  [kept |-> SelectSeq(tagged, keep), stream |-> tagged]

\* one of the two loops (lines 62-65, 70-73): the retained records, tagged, and
\* the stream's list as the loop leaves it (a retained record is tagged in place)
FilterStream(vulns, severity_filter, tool) ==
    LET tagged == [i \in 1..Len(vulns) |->
                      IF Retained(vulns[i], severity_filter)
                      THEN SetItem(vulns[i], "source", tool)
                      ELSE vulns[i]]
        keep(v) == Retained(v, severity_filter)
    IN  [kept |-> SelectSeq(tagged, keep), stream |-> tagged]

\* the two loops with a Mythril issue left out when Slither reported its title
AppendOrderDeduplicated(slither_kept, mythril_kept) ==
    LET titles == {slither_kept[i].title : i \in 1..Len(slither_kept)}
        fresh(issue) == issue.title \notin titles
    IN  slither_kept \o SelectSeq(mythril_kept, fresh)

\* the streams taken in the insertion order of the keys of analysis_results
AppendOrderAsInserted(slither_kept, mythril_kept) ==
    IF inserted # <<>> /\ inserted[1] = "mythril"
    THEN mythril_kept \o slither_kept
    ELSE slither_kept \o mythril_kept

\* the two loops in the other order
AppendOrderMythrilFirst(slither_kept, mythril_kept) == mythril_kept \o slither_kept

\* the order in which line 65 and line 73 append: Slither's, then Mythril's
AppendOrder(slither_kept, mythril_kept) == slither_kept \o mythril_kept

\* 'key' in analysis_results without the test of lines 60 and 68
StreamPresentNoTest(results, key) == TRUE

\* lines 60 and 68: 'slither' in analysis_results
StreamPresent(results, key) == HasKey(results, key)

\* The whole method: raised is TRUE when .get is called on None (AttributeError
\* at line 61 or 69); results is analysis_results as the method leaves it.
_filter_vulnerabilities(results, severity_filter) ==
    LET hasS == StreamPresent(results, "slither")
        badS == hasS /\ (results.slither = Absent \/ IsNone(results.slither))
        fs   == IF hasS /\ ~badS
                THEN FilterStream(Get(results.slither, "vulnerabilities", <<>>), severity_filter, <<"S","l","i","t","h","e","r">>)
                ELSE [kept |-> <<>>, stream |-> <<>>]
        afterS == IF hasS /\ ~badS /\ "vulnerabilities" \in DOMAIN results.slither
                  THEN [results EXCEPT !.slither = SetItem(results.slither, "vulnerabilities", fs.stream)]
                  ELSE results
        hasM == ~badS /\ StreamPresent(results, "mythril")
        badM == hasM /\ (results.mythril = Absent \/ IsNone(results.mythril))
        fm   == IF hasM /\ ~badM
                THEN FilterStream(Get(results.mythril, "issues", <<>>), severity_filter, <<"M","y","t","h","r","i","l">>)
                ELSE [kept |-> <<>>, stream |-> <<>>]
        afterM == IF hasM /\ ~badM /\ "issues" \in DOMAIN results.mythril
                  THEN [afterS EXCEPT !.mythril = SetItem(afterS.mythril, "issues", fm.stream)]
                  ELSE afterS
    IN  [raised |-> badS \/ badM,
         all_vulnerabilities |-> AppendOrder(fs.kept, fm.kept),
         results |-> afterM]

(***************************************************************************)
(* The section templates (lines 120-314).                                  *)
(***************************************************************************)
IsCriticalHigh(v) == lower(Get(v, "severity", <<>>)) \in {<<"c","r","i","t","i","c","a","l">>, <<"h","i","g","h">>}
IsMedium(v) == lower(Get(v, "severity", <<>>)) = <<"m","e","d","i","u","m">>
IsLowInformational(v) == lower(Get(v, "severity", <<>>)) \in {<<"l","o","w">>, <<"i","n","f","o","r","m","a","t","i","o","n","a","l">>}
IsLow(v) == lower(Get(v, "severity", <<>>)) = <<"l","o","w">>

\* lines 139-144 with the Medium count tested first
RiskStatementMediumFirst(critical_high, medium) ==
    IF medium > 0 THEN "ACTION RECOMMENDED"
    ELSE IF critical_high > 0 THEN "IMMEDIATE ACTION REQUIRED"
    ELSE "LOW RISK"

\* lines 139-144
RiskStatement(critical_high, medium) ==
    IF critical_high > 0 THEN "IMMEDIATE ACTION REQUIRED"
    ELSE IF medium > 0 THEN "ACTION RECOMMENDED"
    ELSE "LOW RISK"

\* _executive_summary_template (lines 120-150); tools_used is the set that line
\* 148 joins
_executive_summary_template(vulnerabilities) ==
    LET critical_high == Len(SelectSeq(vulnerabilities, IsCriticalHigh))
        medium == Len(SelectSeq(vulnerabilities, IsMedium))
    IN  [part |-> "section", section |-> "executive_summary",
         total |-> Len(vulnerabilities),
         critical_high |-> critical_high,
         medium |-> medium,
         low |-> Len(SelectSeq(vulnerabilities, IsLowInformational)),
         statement |-> RiskStatement(critical_high, medium),
         tools_used |-> {Get(vulnerabilities[i], "source", <<"U","n","k","n","o","w","n">>) : i \in 1..Len(vulnerabilities)}]

\* the keys of the dicts severity_groups (lines 157-163) and severities (lines
\* 280-286), in insertion order
SeverityOrder == <<<<"C","r","i","t","i","c","a","l">>, <<"H","i","g","h">>, <<"M","e","d","i","u","m">>, <<"L","o","w">>, <<"I","n","f","o","r","m","a","t","i","o","n","a","l">>>>
SeverityNames == {SeverityOrder[i] : i \in 1..Len(SeverityOrder)}

\* vuln.get(key) as a condition: present and not empty
Truthy(d, key) == key \in DOMAIN d /\ d[key] # <<>>

\* lines 176-190: what one finding's block shows
DetailEntry(vuln, number) ==
    LET base == [number |-> number,
                 title |-> Get(vuln, "title", <<"U","n","t","i","t","l","e","d"," ","I","s","s","u","e">>),
                 tool |-> Get(vuln, "source", <<"U","n","k","n","o","w","n">>),
                 description |-> Get(vuln, "description", <<"N","o"," ","d","e","s","c","r","i","p","t","i","o","n"," ","a","v","a","i","l","a","b","l","e">>)]
        withLocation == IF Truthy(vuln, "location")
                        THEN SetItem(base, "location", vuln.location) ELSE base
        withCode == IF Truthy(vuln, "code_snippet")
                    THEN SetItem(withLocation, "code", vuln.code_snippet)
                    ELSE IF Truthy(vuln, "code")
                    THEN SetItem(withLocation, "code", vuln.code)
                    ELSE withLocation
    IN  IF Truthy(vuln, "recommendation")
        THEN SetItem(withCode, "recommendation", vuln.recommendation) ELSE withCode

\* lines 165-168 with the severity compared as spelled, not capitalized
SeverityGroupAsSpelled(vulnerabilities, severity) ==
    LET inGroup(v) == Get(v, "severity", <<"u","n","k","n","o","w","n">>) = severity
    IN  SelectSeq(vulnerabilities, inGroup)

\* lines 165-168: the findings of one bucket, in list order
SeverityGroup(vulnerabilities, severity) ==
    LET inGroup(v) == capitalize(Get(v, "severity", <<"u","n","k","n","o","w","n">>)) = severity
    IN  SelectSeq(vulnerabilities, inGroup)

\* _vulnerability_details_template (lines 152-192): the non-empty buckets in
\* the dict's order, each with its numbered findings
_vulnerability_details_template(vulnerabilities) ==
    LET bucket(severity) ==
            LET vulns == SeverityGroup(vulnerabilities, severity)
            IN  [severity |-> severity,
                 issues |-> [i \in 1..Len(vulns) |-> DetailEntry(vulns[i], i)]]
        nonEmpty(b) == b.issues # <<>>
    IN  [part |-> "section", section |-> "vulnerability_details",
         groups |-> SelectSeq([i \in 1..Len(SeverityOrder) |-> bucket(SeverityOrder[i])], nonEmpty)]

\* _categorize_issue (lines 316-331) with the tests in the opposite order
CategorizeLastRowFirst(title) ==
    LET title_lower == lower(title)
        any(words) == \E w \in words : Contains(title_lower, w)
    IN  IF any({<<"r","a","n","d","o","m">>, <<"t","i","m","e","s","t","a","m","p">>, <<"b","l","o","c","k">>}) THEN <<"R","a","n","d","o","m","n","e","s","s">>
        ELSE IF any({<<"u","n","c","h","e","c","k","e","d">>, <<"r","e","t","u","r","n">>, <<"c","a","l","l">>}) THEN <<"E","x","t","e","r","n","a","l"," ","C","a","l","l","s">>
        ELSE IF any({<<"a","c","c","e","s","s">>, <<"o","w","n","e","r">>, <<"a","u","t","h">>}) THEN <<"A","c","c","e","s","s"," ","C","o","n","t","r","o","l">>
        ELSE IF any({<<"o","v","e","r","f","l","o","w">>, <<"u","n","d","e","r","f","l","o","w">>, <<"a","r","i","t","h","m","e","t","i","c">>}) THEN <<"A","r","i","t","h","m","e","t","i","c">>
        ELSE IF any({<<"r","e","e","n","t","r","a","n","c","y">>, <<"r","e","e","n","t","r","a","n","t">>}) THEN <<"R","e","e","n","t","r","a","n","c","y">>
        ELSE <<"O","t","h","e","r">>

\* _categorize_issue (lines 316-331)
_categorize_issue(title) ==
    LET title_lower == lower(title)
        any(words) == \E w \in words : Contains(title_lower, w)
    IN  IF any({<<"r","e","e","n","t","r","a","n","c","y">>, <<"r","e","e","n","t","r","a","n","t">>}) THEN <<"R","e","e","n","t","r","a","n","c","y">>
        ELSE IF any({<<"o","v","e","r","f","l","o","w">>, <<"u","n","d","e","r","f","l","o","w">>, <<"a","r","i","t","h","m","e","t","i","c">>}) THEN <<"A","r","i","t","h","m","e","t","i","c">>
        ELSE IF any({<<"a","c","c","e","s","s">>, <<"o","w","n","e","r">>, <<"a","u","t","h">>}) THEN <<"A","c","c","e","s","s"," ","C","o","n","t","r","o","l">>
        ELSE IF any({<<"u","n","c","h","e","c","k","e","d">>, <<"r","e","t","u","r","n">>, <<"c","a","l","l">>}) THEN <<"E","x","t","e","r","n","a","l"," ","C","a","l","l","s">>
        ELSE IF any({<<"r","a","n","d","o","m">>, <<"t","i","m","e","s","t","a","m","p">>, <<"b","l","o","c","k">>}) THEN <<"R","a","n","d","o","m","n","e","s","s">>
        ELSE <<"O","t","h","e","r">>

\* the distinct elements of seq in the order of their first occurrence (the key
\* order of a dict filled in that order)
RECURSIVE FirstOccurrences(_)
FirstOccurrences(seq) ==
    IF seq = <<>> THEN <<>>
    ELSE LET init == FirstOccurrences(SubSeq(seq, 1, Len(seq) - 1))
             last == seq[Len(seq)]
         IN  IF \E i \in 1..Len(init) : init[i] = last THEN init ELSE Append(init, last)

\* str(v).lower() (lines 214-217), as far as a search for a word of letters
\* reads it: str(v) is the repr of the dict, its keys hold none of the words
\* searched, and a word of letters lies within one value or nowhere
StrLower(v) == {lower(v[k]) : k \in DOMAIN v}

\* _code_analysis_template (lines 194-224)
_code_analysis_template(vulnerabilities) ==
    LET category(v) == _categorize_issue(Get(v, "title", <<>>))
        categories == [i \in 1..Len(vulnerabilities) |-> category(vulnerabilities[i])]
        keys == FirstOccurrences(categories)
        isCat(c) == LET P(x) == x = c IN Len(SelectSeq(categories, P))
        texts == UNION {StrLower(vulnerabilities[i]) : i \in 1..Len(vulnerabilities)}
        any(words) == \E t \in texts : \E w \in words : Contains(t, w)
        patterns == <<[pattern |-> "Reentrancy", detected |-> any({<<"r","e","e","n","t","r","a","n">>})],
                      [pattern |-> "Unchecked Calls", detected |-> any({<<"u","n","c","h","e","c","k","e","d">>})],
                      [pattern |-> "Access Control", detected |-> any({<<"a","c","c","e","s","s">>, <<"o","w","n","e","r">>})],
                      [pattern |-> "Integer Issues", detected |-> any({<<"o","v","e","r","f","l","o","w">>, <<"u","n","d","e","r","f","l","o","w">>})]>>
        detected(p) == p.detected
        found == SelectSeq(patterns, detected)
    IN  [part |-> "section", section |-> "code_analysis",
         issue_categories |-> [i \in 1..Len(keys) |-> [category |-> keys[i], issues |-> isCat(keys[i])]],
         patterns |-> [i \in 1..Len(found) |-> found[i].pattern]]

\* seq[:n] without the bound
TakeAll(seq, n) == seq

\* seq[:n]
Take(seq, n) == SubSeq(seq, 1, IF Len(seq) < n THEN Len(seq) ELSE n)

\* _recommendations_template (lines 226-270): the two priority lists (an empty
\* list has no heading) and the fixed block of general practices
_recommendations_template(vulnerabilities) ==
    LET high_priority == SelectSeq(vulnerabilities, IsCriticalHigh)
        medium_priority == SelectSeq(vulnerabilities, IsMedium)
        top_high == Take(high_priority, 5)
        top_medium == Take(medium_priority, 5)
        high(v) == [title |-> Get(v, "title", <<"I","s","s","u","e">>),
                    recommendation |-> Get(v, "recommendation", <<"R","e","v","i","e","w"," ","a","n","d"," ","f","i","x"," ","t","h","i","s"," ","i","s","s","u","e">>)]
        medium(v) == [title |-> Get(v, "title", <<"I","s","s","u","e">>),
                      recommendation |-> Get(v, "recommendation", <<"C","o","n","s","i","d","e","r"," ","a","d","d","r","e","s","s","i","n","g"," ","t","h","i","s"," ","i","s","s","u","e">>)]
    IN  [part |-> "section", section |-> "recommendations",
         high_priority |-> [i \in 1..Len(top_high) |-> high(top_high[i])],
         medium_priority |-> [i \in 1..Len(top_medium) |-> medium(top_medium[i])],
         general |-> "General Security Best Practices"]

\* the 'risk' and 'action' entries of severities (lines 281-285)
SeverityRisk == [s \in SeverityNames |->
    CASE s = <<"C","r","i","t","i","c","a","l">> -> "Critical" [] s = <<"H","i","g","h">> -> "High" [] s = <<"M","e","d","i","u","m">> -> "Medium"
      [] s = <<"L","o","w">> -> "Low" [] s = <<"I","n","f","o","r","m","a","t","i","o","n","a","l">> -> "Info"]
SeverityAction == [s \in SeverityNames |->
    CASE s = <<"C","r","i","t","i","c","a","l">> -> "Fix immediately" [] s = <<"H","i","g","h">> -> "Fix before deployment"
      [] s = <<"M","e","d","i","u","m">> -> "Fix recommended" [] s = <<"L","o","w">> -> "Fix if possible"
      [] s = <<"I","n","f","o","r","m","a","t","i","o","n","a","l">> -> "Review"]

\* lines 288-291 with the severity compared as spelled, not capitalized
SeverityCountAsSpelled(vulnerabilities, severity) ==
    LET counted(v) == Get(v, "severity", <<"u","n","k","n","o","w","n">>) = severity
    IN  Len(SelectSeq(vulnerabilities, counted))

\* lines 288-291: how many findings the loop counts under one key of severities
SeverityCount(vulnerabilities, severity) ==
    LET counted(v) == capitalize(Get(v, "severity", <<"u","n","k","n","o","w","n">>)) = severity
    IN  Len(SelectSeq(vulnerabilities, counted))

\* lines 298-303 with the Low count taken off the score
RiskScoreLowSubtracted(count) ==
    count[<<"C","r","i","t","i","c","a","l">>] * 10 + count[<<"H","i","g","h">>] * 5 + count[<<"M","e","d","i","u","m">>] * 3 - count[<<"L","o","w">>] * 1

\* lines 298-303 with a weight of 1 for Informational
RiskScoreCountingInformational(count) ==
    count[<<"C","r","i","t","i","c","a","l">>] * 10 + count[<<"H","i","g","h">>] * 5 + count[<<"M","e","d","i","u","m">>] * 3 + count[<<"L","o","w">>] * 1
    + count[<<"I","n","f","o","r","m","a","t","i","o","n","a","l">>] * 1

\* lines 298-303
RiskScore(count) ==
    count[<<"C","r","i","t","i","c","a","l">>] * 10 + count[<<"H","i","g","h">>] * 5 + count[<<"M","e","d","i","u","m">>] * 3 + count[<<"L","o","w">>] * 1

\* lines 307-312 with >= for the first comparison
RiskBannerOffByOne(risk_score) ==
    IF risk_score >= 30 THEN "High Risk"
    ELSE IF risk_score > 10 THEN "Medium Risk"
    ELSE "Low Risk"

\* lines 307-312
RiskBanner(risk_score) ==
    IF risk_score > 30 THEN "High Risk"
    ELSE IF risk_score > 10 THEN "Medium Risk"
    ELSE "Low Risk"

\* _risk_matrix_template (lines 272-314): count is the 'count' entry of every
\* key of severities, rows the table rows written (lines 293-295)
_risk_matrix_template(vulnerabilities) ==
    LET count == [s \in SeverityNames |-> SeverityCount(vulnerabilities, s)]
        row(s) == [severity |-> s, count |-> count[s],
                   risk |-> SeverityRisk[s], action |-> SeverityAction[s]]
        written(r) == r.count > 0
        risk_score == RiskScore(count)
    IN  [part |-> "section", section |-> "risk_matrix",
         count |-> count,
         rows |-> SelectSeq([i \in 1..Len(SeverityOrder) |-> row(SeverityOrder[i])], written),
         risk_score |-> risk_score,
         banner |-> RiskBanner(risk_score)]

\* self.templates (lines 9-15): the keys, and the call of a key's template
TemplateKeys == {<<"e","x","e","c","u","t","i","v","e","_","s","u","m","m","a","r","y">>, <<"v","u","l","n","e","r","a","b","i","l","i","t","y","_","d","e","t","a","i","l","s">>, <<"c","o","d","e","_","a","n","a","l","y","s","i","s">>,
                 <<"r","e","c","o","m","m","e","n","d","a","t","i","o","n","s">>, <<"r","i","s","k","_","m","a","t","r","i","x">>}

Template(section_key, vulnerabilities) ==
    CASE section_key = <<"e","x","e","c","u","t","i","v","e","_","s","u","m","m","a","r","y">> -> _executive_summary_template(vulnerabilities)
      [] section_key = <<"v","u","l","n","e","r","a","b","i","l","i","t","y","_","d","e","t","a","i","l","s">> -> _vulnerability_details_template(vulnerabilities)
      [] section_key = <<"c","o","d","e","_","a","n","a","l","y","s","i","s">> -> _code_analysis_template(vulnerabilities)
      [] section_key = <<"r","e","c","o","m","m","e","n","d","a","t","i","o","n","s">> -> _recommendations_template(vulnerabilities)
      [] section_key = <<"r","i","s","k","_","m","a","t","r","i","x">> -> _risk_matrix_template(vulnerabilities)

\* lines 88 and 105: section.lower().replace(' ', '_')
SectionKey(section) == replace(lower(section), " ", "_")

(***************************************************************************)
(* The two renderers (lines 77-118) and _get_recommendations_data          *)
(* (lines 333-350).                                                        *)
(***************************************************************************)
Separator == [part |-> "separator"]

\* datetime.now().strftime('%Y-%m-%d %H:%M:%S') (line 83): the time to the second
strftime(now) == [second |-> now \div TicksPerSecond]

\* datetime.now().isoformat() (line 100): the time to the microsecond
isoformat(now) == [second |-> now \div TicksPerSecond, microsecond |-> now % TicksPerSecond]

\* lines 87-92 with a section that was rendered before skipped
RECURSIVE MarkdownSectionsOnce(_, _)
MarkdownSectionsOnce(vulnerabilities, sections) ==
    IF sections = <<>> THEN <<>>
    ELSE LET init == SubSeq(sections, 1, Len(sections) - 1)
             section_key == SectionKey(sections[Len(sections)])
             rest == MarkdownSectionsOnce(vulnerabilities, init)
         IN  IF /\ section_key \in TemplateKeys
                /\ \A i \in 1..Len(init) : SectionKey(init[i]) # section_key
             THEN rest \o <<Template(section_key, vulnerabilities), Separator>>
             ELSE rest

\* lines 87-92: the parts the loop appends
RECURSIVE MarkdownSections(_, _)
MarkdownSections(vulnerabilities, sections) ==
    IF sections = <<>> THEN <<>>
    ELSE LET section_key == SectionKey(Head(sections))
             rest == MarkdownSections(vulnerabilities, Tail(sections))
         IN  IF section_key \in TemplateKeys
             THEN <<Template(section_key, vulnerabilities), Separator>> \o rest
             ELSE rest

\* _generate_markdown_report (lines 77-94): report_parts, which line 94 joins;
\* now is what datetime.now() reads
_generate_markdown_report(vulnerabilities, sections, report_name, now) ==
    <<[part |-> "title", report_name |-> report_name],
      [part |-> "generated", at |-> strftime(now)],
      Separator>> \o MarkdownSections(vulnerabilities, sections)

\* a < b for str (by code point: upper-case letters before lower-case ones)
CharRank(c) == Position(c, UpperChars \o LowerChars)
RECURSIVE StrLess(_, _)
StrLess(a, b) ==
    IF b = <<>> THEN FALSE
    ELSE IF a = <<>> THEN TRUE
    ELSE IF a[1] # b[1] THEN CharRank(a[1]) < CharRank(b[1])
    ELSE StrLess(Tail(a), Tail(b))

\* line 350 without the sort
KeptInListOrder(seq) == seq

\* sorted(seq, key=lambda x: x['priority']) (line 350): stable
RECURSIVE SortedByPriority(_)
SortedByPriority(seq) ==
    IF seq = <<>> THEN <<>>
    ELSE LET init == SortedByPriority(SubSeq(seq, 1, Len(seq) - 1))
             x == seq[Len(seq)]
             \* x goes after the last element that is not greater than it
             notGreater == {i \in 1..Len(init) : ~StrLess(x.priority, init[i].priority)}
             at == IF notGreater = {} THEN 0
                   ELSE CHOOSE i \in notGreater : \A j \in notGreater : j <= i
         IN  SubSeq(init, 1, at) \o <<x>> \o SubSeq(init, at + 1, Len(init))

\* lines 343-348
RecommendationEntry(vuln) ==
    [issue |-> Get(vuln, "title", <<>>),
     severity |-> Get(vuln, "severity", <<"u","n","k","n","o","w","n">>),
     recommendation |-> Get(vuln, "recommendation", <<"R","e","v","i","e","w"," ","a","n","d"," ","f","i","x"," ","t","h","i","s"," ","i","s","s","u","e">>),
     priority |-> IF IsCriticalHigh(vuln) THEN <<"H","i","g","h">> ELSE <<"M","e","d","i","u","m">>]

\* lines 338-348: the entries appended, one for the first finding of every title
RECURSIVE SeenOnce(_)
SeenOnce(vulnerabilities) ==
    IF vulnerabilities = <<>> THEN <<>>
    ELSE LET init == SubSeq(vulnerabilities, 1, Len(vulnerabilities) - 1)
             vuln == vulnerabilities[Len(vulnerabilities)]
             seen_titles == {Get(init[i], "title", <<>>) : i \in 1..Len(init)}
         IN  IF Get(vuln, "title", <<>>) \notin seen_titles
             THEN Append(SeenOnce(init), RecommendationEntry(vuln))
             ELSE SeenOnce(init)

\* _get_recommendations_data (lines 333-350)
_get_recommendations_data(vulnerabilities) == SortedByPriority(SeenOnce(vulnerabilities))

\* lines 106-116: the key of report['sections'] a section is stored under, and
\* its value
JsonSectionKeys == {<<"e","x","e","c","u","t","i","v","e","_","s","u","m","m","a","r","y">>, <<"v","u","l","n","e","r","a","b","i","l","i","t","y","_","d","e","t","a","i","l","s">>, <<"r","e","c","o","m","m","e","n","d","a","t","i","o","n","s">>}

JsonKey(section_key) ==
    CASE section_key = <<"e","x","e","c","u","t","i","v","e","_","s","u","m","m","a","r","y">> -> "executive_summary"
      [] section_key = <<"v","u","l","n","e","r","a","b","i","l","i","t","y","_","d","e","t","a","i","l","s">> -> "vulnerabilities"
      [] section_key = <<"r","e","c","o","m","m","e","n","d","a","t","i","o","n","s">> -> "recommendations"

JsonSection(section_key, vulnerabilities) ==
    CASE section_key = <<"e","x","e","c","u","t","i","v","e","_","s","u","m","m","a","r","y">> ->
             [total_issues |-> Len(vulnerabilities),
              critical_high |-> Len(SelectSeq(vulnerabilities, IsCriticalHigh)),
              medium |-> Len(SelectSeq(vulnerabilities, IsMedium)),
              low |-> Len(SelectSeq(vulnerabilities, IsLow))]
      [] section_key = <<"v","u","l","n","e","r","a","b","i","l","i","t","y","_","d","e","t","a","i","l","s">> -> vulnerabilities
      [] section_key = <<"r","e","c","o","m","m","e","n","d","a","t","i","o","n","s">> -> _get_recommendations_data(vulnerabilities)

\* _generate_json_report (lines 96-118).  Every value stored under a key is a
\* function of vulnerabilities alone, so a section named twice stores the same
\* value twice.
_generate_json_report(vulnerabilities, sections, report_name, now) ==
    LET keys == {SectionKey(sections[i]) : i \in 1..Len(sections)} \cap JsonSectionKeys
        stored == {JsonKey(k) : k \in keys}
        keyOf(name) == CHOOSE k \in keys : JsonKey(k) = name
    IN  [report_name |-> report_name,
         generated |-> isoformat(now),
         sections |-> [name \in stored |-> JsonSection(keyOf(name), vulnerabilities)]]

(***************************************************************************)
(* generate_report (lines 18-53) and its caller.                           *)
(***************************************************************************)
NoCall == [kind |-> "none"]

\* lines 32-47: content and mime_type.  json.dumps (line 40) writes the dict's
\* strings, numbers, lists and dicts one for one: content is the dict written.
Content(vulnerabilities, format_type, sections, report_name, now) ==
    IF format_type = <<"M","a","r","k","d","o","w","n">>
    THEN [content |-> [markdown |-> _generate_markdown_report(vulnerabilities, sections, report_name, now)],
          mime_type |-> "text/markdown"]
    ELSE IF format_type = <<"J","S","O","N">>
    THEN [content |-> [json |-> _generate_json_report(vulnerabilities, sections, report_name, now)],
          mime_type |-> "application/json"]
    ELSE [content |-> [text |-> "Format not supported"],
          mime_type |-> "text/plain"]

\* One call of generate_report, from line 29 to the return of line 49 or to the
\* exception that leaves _filter_vulnerabilities.  The call adds no key to
\* analysis_results; its renderer reads the clock.
generate_report(report_name, format_type, sections, severity_filter) ==
    /\ result = NoCall
    /\ UNCHANGED <<inserted, clock, previous, simulations>>
    /\ LET f == _filter_vulnerabilities(analysis_results, severity_filter)
           c == Content(f.all_vulnerabilities, format_type, sections, report_name, clock)
       IN  /\ call' = [kind |-> "generate_report",
                       analysis_results |-> analysis_results,
                       report_name |-> report_name,
                       format_type |-> format_type,
                       sections |-> sections,
                       severity_filter |-> severity_filter]
           /\ analysis_results' = f.results
           /\ IF f.raised
              THEN /\ filtered_vulnerabilities' = <<>>
                   /\ result' = [kind |-> "raise", exception |-> "AttributeError"]
              ELSE /\ filtered_vulnerabilities' = f.all_vulnerabilities
                   /\ result' = [kind |-> "return",
                                 content |-> c.content,
                                 mime_type |-> c.mime_type,
                                 filename |-> [stem |-> report_name,
                                               extension |-> lower(format_type)]]

\* The caller is done with the returned report (streamlit_app.py lines 532-544:
\* preview and download button) and the next call can start.
Discard ==
    /\ result # NoCall
    /\ result' = NoCall
    /\ call' = NoCall
    /\ filtered_vulnerabilities' = <<>>
    /\ UNCHANGED <<analysis_results, inserted, clock, previous, simulations>>

\* The caller keeps the report and the arguments it was made with (the download
\* of streamlit_app.py lines 538-544), and the next call can start.
Retain ==
    /\ result # NoCall
    /\ previous' = [call |-> call, result |-> result]
    /\ result' = NoCall
    /\ call' = NoCall
    /\ filtered_vulnerabilities' = <<>>
    /\ UNCHANGED <<analysis_results, inserted, clock, simulations>>

\* Time passes between two calls.
Tick ==
    /\ clock < MaxClock
    /\ clock' = clock + 1
    /\ UNCHANGED <<analysis_results, inserted, call, filtered_vulnerabilities, result, previous,
                   simulations>>

(***************************************************************************)
(* AttackSimulator.simulate_flashloan (backend/attack_simulator.py lines   *)
(* 11-90).  A value whose Python type the code tests or that json.loads    *)
(* returns carries its type: [py_type |-> "str", value |-> characters],    *)
(* [py_type |-> "list", value |-> elements], [py_type |-> "int", ...], and *)
(* None.  Amounts of ETH are whole numbers of 10^-8 ETH, in which the gas  *)
(* price of line 64 is 3 for a unit of gas.                                *)
(***************************************************************************)
NewLine == "\n"
Quote == "\""
Whitespace == {" ", NewLine, "\t", "\r"}

Str(chars) == [py_type |-> "str", value |-> chars]
List(elements) == [py_type |-> "list", value |-> elements]

\* str.strip()
RECURSIVE lstrip(_)
lstrip(s) == IF s # <<>> /\ s[1] \in Whitespace THEN lstrip(Tail(s)) ELSE s

RECURSIVE rstrip(_)
rstrip(s) == IF s # <<>> /\ s[Len(s)] \in Whitespace THEN rstrip(SubSeq(s, 1, Len(s) - 1)) ELSE s

strip(s) == rstrip(lstrip(s))

\* str.split(sep) for a one-character sep
RECURSIVE split(_, _)
split(s, sep) ==
    IF \A i \in 1..Len(s) : s[i] # sep THEN <<s>>
    ELSE LET at == CHOOSE i \in 1..Len(s) : s[i] = sep /\ \A j \in 1..(i - 1) : s[j] # sep
         IN  <<SubSeq(s, 1, at - 1)>> \o split(SubSeq(s, at + 1, Len(s)), sep)

\* json.loads (line 20) gave no value
JSONDecodeError == [raised |-> TRUE]

Loaded(value) == [raised |-> FALSE, value |-> value]

\* text is a JSON integer
IsJsonInteger(text) ==
    LET digits == IF text # <<>> /\ text[1] = "-" THEN Tail(text) ELSE text
    IN  /\ digits # <<>>
        /\ \A i \in 1..Len(digits) : Position(digits[i], Digits) > 0
        /\ Len(digits) > 1 => digits[1] # "0"

\* a character a JSON string holds as it is: no quote, no backslash, no
\* control character
IsJsonStringChar(c) == c \notin {Quote, "\\", NewLine, "\t", "\r"}

\* the elements of a JSON array of strings, read from the text that follows
\* its '[' or (not first) a ','
RECURSIVE JsonElements(_, _)
JsonElements(text, first) ==
    LET s == lstrip(text)
    IN  IF s = <<>> THEN JSONDecodeError
        ELSE IF s[1] = "]"
        THEN IF first /\ strip(Tail(s)) = <<>> THEN Loaded(<<>>) ELSE JSONDecodeError
        ELSE IF s[1] # Quote \/ \A i \in 2..Len(s) : s[i] # Quote THEN JSONDecodeError
        ELSE LET closing == CHOOSE i \in 2..Len(s) :
                                s[i] = Quote /\ \A j \in 2..(i - 1) : s[j] # Quote
                 element == SubSeq(s, 2, closing - 1)
                 rest == lstrip(SubSeq(s, closing + 1, Len(s)))
             IN  IF \E i \in 1..Len(element) : ~IsJsonStringChar(element[i]) THEN JSONDecodeError
                 ELSE IF rest = <<>> THEN JSONDecodeError
                 ELSE IF rest[1] = "]"
                 THEN IF strip(Tail(rest)) = <<>> THEN Loaded(<<element>>) ELSE JSONDecodeError
                 ELSE IF rest[1] # "," THEN JSONDecodeError
                 ELSE LET more == JsonElements(Tail(rest), FALSE)
                      IN  IF more.raised THEN JSONDecodeError
                          ELSE Loaded(<<element>> \o more.value)

\* json.loads(text) (line 20) for the texts of an integer, of null, of a string
\* without escapes and of an array of such strings, and for every text that is
\* no JSON; the texts of other JSON values (a fraction, true, an object, an
\* array of other elements) are not among the inputs
json_loads(text) ==
    LET s == strip(text)
    IN  IF IsJsonInteger(s) THEN Loaded([py_type |-> "int", digits |-> s])
        ELSE IF s = <<"n","u","l","l">> THEN Loaded(None)
        ELSE IF Len(s) >= 2 /\ s[1] = Quote /\ s[Len(s)] = Quote
                /\ \A i \in 2..(Len(s) - 1) : IsJsonStringChar(s[i])
        THEN Loaded(Str(SubSeq(s, 2, Len(s) - 1)))
        ELSE IF s # <<>> /\ s[1] = "["
        THEN LET elements == JsonElements(Tail(s), TRUE)
             IN  IF elements.raised THEN JSONDecodeError ELSE Loaded(List(elements.value))
        ELSE JSONDecodeError

\* line 23: the stripped lines of the text that are not blank
StrippedLines(text) ==
    LET lines == split(text, NewLine)
        stripped == [i \in 1..Len(lines) |-> strip(lines[i])]
    IN  SelectSeq(stripped, LAMBDA line : line # <<>>)

\* lines 16-25: the value of `steps`
ParsedSteps(attack_steps) ==
    IF ~IsNone(attack_steps) /\ attack_steps.py_type = "str"
    THEN LET loaded == json_loads(attack_steps.value)
         IN  IF loaded.raised THEN List(StrippedLines(attack_steps.value)) ELSE loaded.value
    ELSE IF ~IsNone(attack_steps) /\ attack_steps.py_type = "list" THEN attack_steps
    ELSE List(<<>>)

\* enumerate(steps) (line 31): a list gives its elements, a str its characters,
\* and an int or None is not iterable
IsIterable(steps) == ~IsNone(steps) /\ steps.py_type \in {"list", "str"}

Iterated(steps) ==
    IF steps.py_type = "str" THEN [i \in 1..Len(steps.value) |-> <<steps.value[i]>>]
    ELSE steps.value

\* what the random module can give: the ends of random.randint(50000, 200000)
\* (line 33), random.choice([True, True, True, False]) (line 34), the ends of
\* random.uniform(0.05, 0.20) in percent (line 49) and of
\* random.uniform(0.01, 0.05) in 10^-8 ETH for one ETH lent (line 52), and the
\* ends of random.randint(0, 20) (line 179)
GasDraws == {50000, 200000}
SuccessDraws == BOOLEAN
ImpactDraws == {5, 20}
RateDraws == {1000000, 5000000}
RiskDraws == {0, 20}

\* the random draws of one step (lines 33-52): line 49 draws for a step of
\* price manipulation alone and line 52 for a successful step of trading alone
\* (0 stands for no draw)
StepDraws(step) ==
    LET step_lower == lower(step)
        borrows == Contains(step_lower, <<"b","o","r","r","o","w">>)
        manipulates == Contains(step_lower, <<"m","a","n","i","p","u","l","a","t","e">>) \/ Contains(step_lower, <<"o","r","a","c","l","e">>)
        trades == Contains(step_lower, <<"b","u","y">>) \/ Contains(step_lower, <<"s","e","l","l">>)
                  \/ Contains(step_lower, <<"a","r","b","i","t","r","a","g","e">>)
    IN  {d \in [gas_used : GasDraws, success : SuccessDraws,
                impact : ImpactDraws \cup {0}, rate : RateDraws \cup {0}] :
            /\ d.impact # 0 <=> (~borrows /\ manipulates)
            /\ d.rate # 0 <=> (~borrows /\ ~manipulates /\ trades /\ d.success)}

\* the draws of the loop of lines 31-60, step by step
RECURSIVE DrawsOf(_)
DrawsOf(steps) ==
    IF steps = <<>> THEN {<<>>}
    ELSE {<<d>> \o rest : d \in StepDraws(Head(steps)), rest \in DrawsOf(Tail(steps))}

\* lines 44-58: the details of a step and the profit it adds
StepDetails(step, success, loan_amount, impact, rate) ==
    LET step_lower == lower(step)
    IN  IF Contains(step_lower, <<"b","o","r","r","o","w">>)
        THEN [details |-> [text |-> "Borrowed", loan_amount |-> loan_amount], profit |-> 0]
        ELSE IF Contains(step_lower, <<"m","a","n","i","p","u","l","a","t","e">>) \/ Contains(step_lower, <<"o","r","a","c","l","e">>)
        THEN [details |-> [text |-> "Price manipulated by", percent |-> impact], profit |-> 0]
        ELSE IF Contains(step_lower, <<"b","u","y">>) \/ Contains(step_lower, <<"s","e","l","l">>)
                \/ Contains(step_lower, <<"a","r","b","i","t","r","a","g","e">>)
        THEN LET profit == IF success THEN loan_amount * rate ELSE 0
             IN  [details |-> [text |-> "Profit", profit |-> profit], profit |-> profit]
        ELSE IF Contains(step_lower, <<"r","e","p","a","y">>)
        THEN [details |-> [text |-> "Repaid", loan_amount |-> loan_amount], profit |-> 0]
        ELSE [details |-> [text |-> "Step executed"], profit |-> 0]

\* _assess_flashloan_risk (lines 162-189); 0.1 ETH is 10000000
_assess_flashloan_risk(profit, gas_used, drawn) ==
    LET risk_score == (IF profit < 0 THEN 40 ELSE IF profit < 10000000 THEN 20 ELSE 0)
                      + (IF gas_used > 1000000 THEN 30 ELSE IF gas_used > 500000 THEN 15 ELSE 0)
                      + drawn
    IN  [risk_score |-> IF risk_score < 100 THEN risk_score ELSE 100,
         risk_level |-> IF risk_score > 70 THEN "High"
                        ELSE IF risk_score > 40 THEN "Medium" ELSE "Low",
         factors |-> [profitability |-> IF profit < 0 THEN "Poor" ELSE "Good",
                      gas_efficiency |-> IF gas_used > 1000000 THEN "Poor" ELSE "Good",
                      execution_complexity |-> "High"]]

\* lines 28-87: the simulation dict of the given steps under the given draws
Simulation(target_address, loan_amount, steps, draws, risk_drawn, now) ==
    LET detailed == [i \in 1..Len(steps) |->
                        StepDetails(steps[i], draws[i].success, loan_amount,
                                    draws[i].impact, draws[i].rate)]
        execution_results ==
            [i \in 1..Len(steps) |->
                [step |-> i,
                 action |-> steps[i],
                 status |-> IF draws[i].success THEN "Success" ELSE "Failed",
                 gas_used |-> draws[i].gas_used,
                 details |-> detailed[i].details]]
        total_profit == SumSeq([i \in 1..Len(steps) |-> detailed[i].profit])
        total_gas == SumSeq([i \in 1..Len(steps) |-> draws[i].gas_used])
        gas_cost_eth == total_gas * 3
        net_profit == total_profit - gas_cost_eth
    IN  [simulation_id |-> [prefix |-> "FL_", at |-> strftime(now)],
         type |-> "Flash Loan Attack",
         target |-> target_address,
         timestamp |-> isoformat(now),
         parameters |-> [loan_amount |-> loan_amount, steps |-> Len(steps)],
         execution |-> execution_results,
         summary |-> [total_steps |-> Len(steps),
                      successful_steps |->
                          Len(SelectSeq(execution_results, LAMBDA r : r.status = "Success")),
                      total_gas_used |-> total_gas,
                      gas_cost_eth |-> gas_cost_eth,
                      gross_profit |-> total_profit,
                      net_profit |-> net_profit,
                      attack_successful |-> net_profit > 0],
         risk_assessment |-> _assess_flashloan_risk(net_profit, total_gas, risk_drawn)]

\* One call of simulate_flashloan, from line 13 to the return of line 90 or to
\* the TypeError of enumerate (line 31) on steps that are no list and no str.
simulate_flashloan(target_address, loan_amount, attack_steps) ==
    /\ result = NoCall
    /\ Len(simulations) < MaxSimulations
    /\ UNCHANGED <<analysis_results, inserted, clock, filtered_vulnerabilities, previous>>
    /\ call' = [kind |-> "simulate_flashloan",
                target_address |-> target_address,
                loan_amount |-> loan_amount,
                attack_steps |-> attack_steps,
                simulations |-> simulations]
    /\ LET steps == ParsedSteps(attack_steps)
       IN  IF ~IsIterable(steps)
           THEN /\ result' = [kind |-> "raise", exception |-> "TypeError"]
                /\ UNCHANGED simulations
           ELSE \E draws \in DrawsOf(Iterated(steps)), risk_drawn \in RiskDraws :
                    LET simulation == Simulation(target_address, loan_amount, Iterated(steps),
                                                 draws, risk_drawn, clock)
                    IN  /\ simulations' = Append(simulations, simulation)
                        /\ result' = [kind |-> "return", simulation |-> simulation]

(***************************************************************************)
(* The adapters' results, as far as generate_report reads them.            *)
(***************************************************************************)
\* SlitherRunner.analyze (backend/slither_runner.py lines 26-41): the mock's
\* result on the cloud path; off it the try block is `pass`, nothing is
\* raised and the method ends without a return statement
SlitherRunner_analyze(is_cloud, mock_result) == IF is_cloud THEN mock_result ELSE None

\* MythrilRunner.analyze (backend/mythril_runner.py lines 15-73): the parsed
\* issues, or the failure record of a timeout (a crash and unparsable output
\* give the same record with another error text)
MythrilRunner_analyze(outcome, issues) ==
    CASE outcome = "parsed" -> [success |-> TRUE, issues |-> issues]
      [] outcome = "timeout" -> [success |-> FALSE, error |-> "Analysis timeout", issues |-> <<>>]

\* the dicts of `dicts`, each also with every value of `values` under `key`
WithKey(dicts, key, values) == {SetItem(d, key, v) : d \in dicts, v \in values}

SlitherResults(findings, n) ==
    {Absent} \cup {SlitherRunner_analyze(is_cloud, [success |-> TRUE, vulnerabilities |-> l]) :
                      is_cloud \in BOOLEAN, l \in SeqsUpTo(findings, n)}

MythrilResults(findings, n) ==
    {Absent} \cup {MythrilRunner_analyze("parsed", l) : l \in SeqsUpTo(findings, n)}
             \cup {MythrilRunner_analyze("timeout", <<>>)}

\* the findings a stream's result holds
StreamFindings(stream_result, key) ==
    IF stream_result = Absent \/ IsNone(stream_result) THEN <<>> ELSE Get(stream_result, key, <<>>)

InputFindings(results) ==
    StreamFindings(results.slither, "vulnerabilities") \o StreamFindings(results.mythril, "issues")

\* every analysis_results with at most n findings, Slither's drawn from
\* slither_findings and Mythril's from mythril_findings
AnalysisResults(slither_findings, mythril_findings, n) ==
    {r \in [slither : SlitherResults(slither_findings, n),
            mythril : MythrilResults(mythril_findings, n)] :
        Len(InputFindings(r)) <= n}

\* the arguments of one call
Requests(formats, section_lists, severity_filters) ==
    [report_name : {"Test_Report"}, format_type : formats, sections : section_lists,
     severity_filter : severity_filters]

Call(request) ==
    generate_report(request.report_name, request.format_type, request.sections,
                    request.severity_filter)

\* the keys analysis_results holds, 'slither' stored before 'mythril'
\* (streamlit_app.py lines 158-171)
KeysStored(results) ==
    SelectSeq(<<"slither", "mythril">>, LAMBDA key : HasKey(results, key))

\* the state before the first call, with one of the given analysis results
Start(inputs) ==
    /\ analysis_results \in inputs
    /\ inserted = KeysStored(analysis_results)
    /\ clock = 0
    /\ call = NoCall
    /\ filtered_vulnerabilities = <<>>
    /\ result = NoCall
    /\ previous = NoCall
    /\ simulations = <<>>

(***************************************************************************)
(* The general specification: findings of every kind of severity string    *)
(* (the five names in several spellings, an unrecognised one, none), every *)
(* format the Audit Reports page offers, and the section lists and         *)
(* severity filters below.                                                 *)
(***************************************************************************)
SlitherFindings ==
    LET base == {[title |-> <<"U","s","e"," ","o","f"," ","t","x",".","o","r","i","g","i","n">>, description |-> <<"t","x",".","o","r","i","g","i","n">>]}
    IN  base \cup WithKey(base, "severity", {<<"H","I","G","H">>, <<"l","o","w">>, <<"i","n","f","o","r","m","a","t","i","o","n","a","l">>})

MythrilFindings ==
    LET base == {[title |-> <<"U","s","e"," ","o","f"," ","t","x",".","o","r","i","g","i","n">>, description |-> <<"t","x",".","o","r","i","g","i","n">>]}
    IN  WithKey(base, "severity", {<<"c","r","i","t","i","c","a","l">>, <<"m","e","d","i","u","m">>, <<"l","o","w">>, <<"u","n","k","n","o","w","n">>})

\* the choices of the Audit Reports page (streamlit_app.py lines 504-518)
AllSections == <<<<"E","x","e","c","u","t","i","v","e"," ","S","u","m","m","a","r","y">>, <<"V","u","l","n","e","r","a","b","i","l","i","t","y"," ","D","e","t","a","i","l","s">>, <<"C","o","d","e"," ","A","n","a","l","y","s","i","s">>,
                 <<"R","e","c","o","m","m","e","n","d","a","t","i","o","n","s">>, <<"R","i","s","k"," ","M","a","t","r","i","x">>>>

SeverityFilters == {{},
                    {<<"H","i","g","h">>},
                    {<<"C","r","i","t","i","c","a","l">>, <<"H","i","g","h">>, <<"M","e","d","i","u","m">>},
                    {<<"H","i","g","h">>, <<"M","e","d","i","u","m">>, <<"L","o","w">>},
                    {<<"I","n","f","o","r","m","a","t","i","o","n","a","l">>},
                    SeverityNames}

SpecRequests ==
    Requests({<<"M","a","r","k","d","o","w","n">>}, {AllSections, <<>>, <<<<"A","p","p","e","n","d","i","x">>, <<"R","i","s","k"," ","M","a","t","r","i","x">>, <<"E","x","e","c","u","t","i","v","e"," ","S","u","m","m","a","r","y">>>>},
             SeverityFilters)
    \cup Requests({<<"J","S","O","N">>, <<"P","D","F"," ","(","B","e","t","a",")">>}, {AllSections}, SeverityFilters)

Init == Start(AnalysisResults(SlitherFindings, MythrilFindings, MaxIssues))

Next ==
    \/ \E request \in SpecRequests : Call(request)
    \/ Discard

Spec == Init /\ [][Next]_vars

(***************************************************************************)
(* The risk specification: the risk matrix over every vector of severity   *)
(* counts up to the bounds, the Critical findings reported by Mythril and  *)
(* the others by Slither.                                                  *)
(***************************************************************************)
Repeat(v, n) == [i \in 1..n |-> v]

CountedFindings(critical, high, medium, low, informational) ==
    LET finding(severity) == [title |-> <<"U","s","e"," ","o","f"," ","t","x",".","o","r","i","g","i","n">>, description |-> <<"t","x",".","o","r","i","g","i","n">>,
                              severity |-> severity]
    IN  [slither |-> SlitherRunner_analyze(TRUE,
                        [success |-> TRUE,
                         vulnerabilities |-> Repeat(finding(<<"h","i","g","h">>), high)
                                             \o Repeat(finding(<<"m","e","d","i","u","m">>), medium)
                                             \o Repeat(finding(<<"l","o","w">>), low)
                                             \o Repeat(finding(<<"i","n","f","o","r","m","a","t","i","o","n","a","l">>), informational)]),
         mythril |-> MythrilRunner_analyze("parsed", Repeat(finding(<<"c","r","i","t","i","c","a","l">>), critical))]

RiskRequests ==
    Requests({<<"M","a","r","k","d","o","w","n">>}, {<<<<"R","i","s","k"," ","M","a","t","r","i","x">>>>},
             {SeverityNames, {<<"C","r","i","t","i","c","a","l">>, <<"H","i","g","h">>, <<"M","e","d","i","u","m">>}})

InitRisk ==
    Start({CountedFindings(c, h, m, l, i) :
              c \in 0..MaxCritical, h \in 0..MaxOther, m \in 0..MaxOther,
              l \in 0..MaxOther, i \in 0..MaxOther})

NextRisk ==
    \/ \E request \in RiskRequests : Call(request)
    \/ Discard

SpecRisk == InitRisk /\ [][NextRisk]_vars

(***************************************************************************)
(* The recommendations specification: findings of two titles, with and     *)
(* without a recommendation text, in the sections that list them.          *)
(***************************************************************************)
RecSlitherFindings ==
    LET base == {[title |-> t, description |-> <<"d">>, severity |-> v] :
                    t \in {<<"R","e","e","n","t","r","a","n","c","y">>, <<"O","v","e","r","f","l","o","w">>}, v \in {<<"h","i","g","h">>, <<"m","e","d","i","u","m">>}}
    IN  base \cup WithKey(base, "recommendation", {<<"U","s","e"," ","R","e","e","n","t","r","a","n","c","y","G","u","a","r","d">>})

RecMythrilFindings ==
    {[title |-> t, description |-> <<"d">>, severity |-> v, recommendation |-> <<"U","s","e"," ","S","a","f","e","M","a","t","h">>] :
        t \in {<<"R","e","e","n","t","r","a","n","c","y">>, <<"O","v","e","r","f","l","o","w">>}, v \in {<<"h","i","g","h">>, <<"m","e","d","i","u","m">>}}

RecRequests ==
    Requests({<<"M","a","r","k","d","o","w","n">>, <<"J","S","O","N">>}, {<<<<"R","e","c","o","m","m","e","n","d","a","t","i","o","n","s">>, <<"V","u","l","n","e","r","a","b","i","l","i","t","y"," ","D","e","t","a","i","l","s">>>>},
             {SeverityNames, {<<"C","r","i","t","i","c","a","l">>, <<"H","i","g","h">>}})

InitRec == Start(AnalysisResults(RecSlitherFindings, RecMythrilFindings, MaxIssues))

NextRec ==
    \/ \E request \in RecRequests : Call(request)
    \/ Discard

SpecRec == InitRec /\ [][NextRec]_vars

(***************************************************************************)
(* The repetition specification: calls one after another on the same       *)
(* analysis results while time passes, the caller keeping an earlier       *)
(* report to compare the next with.                                        *)
(***************************************************************************)
FewSlitherFindings ==
    {[title |-> <<"U","s","e"," ","o","f"," ","t","x",".","o","r","i","g","i","n">>, description |-> <<"t","x",".","o","r","i","g","i","n">>, severity |-> <<"h","i","g","h">>]}

FewMythrilFindings ==
    {[title |-> <<"U","s","e"," ","o","f"," ","t","x",".","o","r","i","g","i","n">>, description |-> <<"t","x",".","o","r","i","g","i","n">>, severity |-> <<"m","e","d","i","u","m">>]}

RepeatRequests ==
    Requests({<<"M","a","r","k","d","o","w","n">>, <<"J","S","O","N">>}, {<<<<"E","x","e","c","u","t","i","v","e"," ","S","u","m","m","a","r","y">>, <<"V","u","l","n","e","r","a","b","i","l","i","t","y"," ","D","e","t","a","i","l","s">>>>},
             {{<<"H","i","g","h">>}, {<<"H","i","g","h">>, <<"M","e","d","i","u","m">>}})

InitRepeat == Start(AnalysisResults(FewSlitherFindings, FewMythrilFindings, MaxFew))

NextRepeat ==
    \/ \E request \in RepeatRequests : Call(request)
    \/ Discard
    \/ Retain
    \/ Tick

SpecRepeat == InitRepeat /\ [][NextRepeat]_vars

(***************************************************************************)
(* The arrival specification: the adapters' results stored in              *)
(* analysis_results in either order of completion.                         *)
(***************************************************************************)
\* the orders in which the keys of keys can have been inserted
InsertionOrders(keys) ==
    {order \in SeqsUpTo({keys[i] : i \in 1..Len(keys)}, Len(keys)) :
        /\ Len(order) = Len(keys)
        /\ \A i, j \in 1..Len(order) : i # j => order[i] # order[j]}

ArrivalRequests ==
    Requests({<<"M","a","r","k","d","o","w","n">>}, {<<<<"R","i","s","k"," ","M","a","t","r","i","x">>, <<"V","u","l","n","e","r","a","b","i","l","i","t","y"," ","D","e","t","a","i","l","s">>>>},
             {{<<"H","i","g","h">>}, {<<"H","i","g","h">>, <<"M","e","d","i","u","m">>}})
    \cup Requests({<<"J","S","O","N">>}, {<<<<"V","u","l","n","e","r","a","b","i","l","i","t","y"," ","D","e","t","a","i","l","s">>>>}, {{<<"H","i","g","h">>, <<"M","e","d","i","u","m">>}})

InitArrival ==
    /\ analysis_results \in AnalysisResults(FewSlitherFindings, FewMythrilFindings, MaxIssues)
    /\ inserted \in InsertionOrders(KeysStored(analysis_results))
    /\ clock = 0
    /\ call = NoCall
    /\ filtered_vulnerabilities = <<>>
    /\ result = NoCall
    /\ previous = NoCall
    /\ simulations = <<>>

NextArrival ==
    \/ \E request \in ArrivalRequests : Call(request)
    \/ Discard

SpecArrival == InitArrival /\ [][NextArrival]_vars

(***************************************************************************)
(* The sections specification: Markdown reports of section lists in        *)
(* several orders, with a section named twice and a section the engine     *)
(* has no template for.                                                    *)
(***************************************************************************)
SectionLists ==
    {<<>>,
     <<<<"R","i","s","k"," ","M","a","t","r","i","x">>, <<"E","x","e","c","u","t","i","v","e"," ","S","u","m","m","a","r","y">>>>,
     <<<<"E","x","e","c","u","t","i","v","e"," ","S","u","m","m","a","r","y">>, <<"R","i","s","k"," ","M","a","t","r","i","x">>>>,
     <<<<"R","e","c","o","m","m","e","n","d","a","t","i","o","n","s">>, <<"A","p","p","e","n","d","i","x">>, <<"E","x","e","c","u","t","i","v","e"," ","S","u","m","m","a","r","y">>, <<"R","e","c","o","m","m","e","n","d","a","t","i","o","n","s">>>>}

SectionsRequests == Requests({<<"M","a","r","k","d","o","w","n">>}, SectionLists, {{<<"H","i","g","h">>}, {<<"H","i","g","h">>, <<"M","e","d","i","u","m">>}})

InitSections == Start(AnalysisResults(FewSlitherFindings, FewMythrilFindings, MaxFew))

NextSections ==
    \/ \E request \in SectionsRequests : Call(request)
    \/ Discard

SpecSections == InitSections /\ [][NextSections]_vars

(***************************************************************************)
(* The JSON specification: JSON reports of section lists that leave        *)
(* sections out, name sections JSON does not carry and name a section      *)
(* twice.                                                                  *)
(***************************************************************************)
JsonSectionLists ==
    {<<>>,
     <<<<"E","x","e","c","u","t","i","v","e"," ","S","u","m","m","a","r","y">>>>,
     <<<<"R","i","s","k"," ","M","a","t","r","i","x">>, <<"V","u","l","n","e","r","a","b","i","l","i","t","y"," ","D","e","t","a","i","l","s">>, <<"A","p","p","e","n","d","i","x">>>>,
     <<<<"R","e","c","o","m","m","e","n","d","a","t","i","o","n","s">>, <<"C","o","d","e"," ","A","n","a","l","y","s","i","s">>, <<"R","e","c","o","m","m","e","n","d","a","t","i","o","n","s">>>>,
     AllSections}

JsonRequests == Requests({<<"J","S","O","N">>}, JsonSectionLists, {{<<"H","i","g","h">>}, {<<"H","i","g","h">>, <<"M","e","d","i","u","m">>}})

InitJson == Start(AnalysisResults(FewSlitherFindings, FewMythrilFindings, MaxFew))

NextJson ==
    \/ \E request \in JsonRequests : Call(request)
    \/ Discard

SpecJson == InitJson /\ [][NextJson]_vars

(***************************************************************************)
(* The listing specification: up to MaxListed Critical/High findings and   *)
(* as many Medium ones, each of its own title, among Low and Informational *)
(* ones, in the Recommendations section.                                   *)
(***************************************************************************)
\* the i-th finding of a kind: its title is the kind's letter and i, and with
\* with_text an odd-numbered finding carries a recommendation of its own
NumberedFinding(letter, severity, i, with_text) ==
    LET base == [title |-> <<letter, Digits[(i % 10) + 1]>>, description |-> <<"d">>,
                 severity |-> severity]
    IN  IF with_text /\ i % 2 = 1 THEN SetItem(base, "recommendation", <<"r", letter>>) ELSE base

ListedFindings(high, medium, low, informational, with_text) ==
    LET highs == [i \in 1..high |->
                    NumberedFinding("H", IF i % 2 = 0 THEN <<"c","r","i","t","i","c","a","l">> ELSE <<"H","i","g","h">>, i, with_text)]
        mediums == [i \in 1..medium |-> NumberedFinding("M", <<"m","e","d","i","u","m">>, i, with_text)]
        lows == [i \in 1..low |-> NumberedFinding("L", <<"l","o","w">>, i, with_text)]
        informationals == [i \in 1..informational |->
                              NumberedFinding("I", <<"i","n","f","o","r","m","a","t","i","o","n","a","l">>, i, with_text)]
    IN  [slither |-> SlitherRunner_analyze(TRUE,
                        [success |-> TRUE, vulnerabilities |-> lows \o highs \o informationals]),
         mythril |-> MythrilRunner_analyze("parsed", mediums)]

ListingRequests ==
    Requests({<<"M","a","r","k","d","o","w","n">>}, {<<<<"R","e","c","o","m","m","e","n","d","a","t","i","o","n","s">>>>},
             {SeverityNames, {<<"H","i","g","h">>, <<"M","e","d","i","u","m">>}})

InitListing ==
    Start({ListedFindings(h, m, l, i, with_text) :
              h \in 0..MaxListed, m \in 0..MaxListed, l \in 0..MaxFew, i \in 0..MaxFew,
              with_text \in BOOLEAN})

NextListing ==
    \/ \E request \in ListingRequests : Call(request)
    \/ Discard

SpecListing == InitListing /\ [][NextListing]_vars

(***************************************************************************)
(* The titles specification: findings whose titles hold keywords of no     *)
(* row, one row or two rows of the category table, in several cases, with  *)
(* descriptions that hold a keyword or none, in the Code Analysis section. *)
(***************************************************************************)
Titles == {<<"R","e","e","n","t","r","a","n","t"," ","c","a","l","l">>, <<"U","n","c","h","e","c","k","e","d"," ","O","v","e","r","f","l","o","w">>, <<"O","w","n","e","r"," ","t","i","m","e","s","t","a","m","p">>, <<"R","E","T","U","R","N"," ","o","f"," ","b","l","o","c","k">>,
           <<"W","e","a","k"," ","R","a","n","d","o","m">>, <<"G","a","s"," ","l","i","m","i","t">>}

TitledSlitherFindings ==
    LET untitled == {[description |-> <<"d">>, severity |-> <<"h","i","g","h">>]}
        titled == WithKey(untitled, "title", Titles)
    IN  untitled \cup titled
        \cup WithKey(titled, "description", {<<"o","n","l","y"," ","o","w","n","e","r">>})
        \cup {[title |-> <<"R","e","e","n","t","r","a","n","c","y">>, description |-> <<"d">>, severity |-> <<"l","o","w">>]}

TitledMythrilFindings ==
    {[title |-> <<"I","n","t","e","g","e","r"," ","U","n","d","e","r","f","l","o","w">>, description |-> <<"d">>, severity |-> <<"m","e","d","i","u","m">>]}

TitlesRequests ==
    Requests({<<"M","a","r","k","d","o","w","n">>}, {<<<<"C","o","d","e"," ","A","n","a","l","y","s","i","s">>>>}, {{<<"H","i","g","h">>}, {<<"H","i","g","h">>, <<"M","e","d","i","u","m">>}})

InitTitles == Start(AnalysisResults(TitledSlitherFindings, TitledMythrilFindings, MaxFew))

NextTitles ==
    \/ \E request \in TitlesRequests : Call(request)
    \/ Discard

SpecTitles == InitTitles /\ [][NextTitles]_vars

(***************************************************************************)
(* The simulator specification: flash loan simulations one after another   *)
(* on one simulator, of steps given as lines of text with blank lines and  *)
(* blanks around them, as the text of a JSON value, and as a list.         *)
(***************************************************************************)
AttackSteps ==
    {Str(<<>>),
     Str(<<NewLine>> \o <<" ","s","e","l","l"," ">> \o <<NewLine>>),
     Str(<<"1","."," ","B","o","r","r","o","w">> \o <<NewLine>> \o <<"2","."," ","R","e","p","a","y">>),
     Str(<<"3">>),
     Str(<<"[">> \o <<Quote, Quote>> \o <<"]">>),
     List(<<<<"O","r","a","c","l","e">>>>)}

InitSimulator == Start({[slither |-> Absent, mythril |-> Absent]})

NextSimulator ==
    \/ \E attack_steps \in AttackSteps : simulate_flashloan(<<"0","x","1","2","3","4">>, 10, attack_steps)
    \/ Discard

SpecSimulator == InitSimulator /\ [][NextSimulator]_vars

(***************************************************************************)
(* What the claims read off a state.                                       *)
(***************************************************************************)
Called == call.kind = "generate_report"
Returned == result.kind = "return"

\* the parts of the Markdown text returned, and the rendered sections of a kind
MarkdownParts ==
    IF Returned /\ "markdown" \in DOMAIN result.content THEN result.content.markdown ELSE <<>>

Rendered(section) ==
    {MarkdownParts[i] : i \in {j \in 1..Len(MarkdownParts) :
        MarkdownParts[j].part = "section" /\ MarkdownParts[j].section = section}}

\* report['sections'] of the JSON text returned
JsonSections ==
    IF Returned /\ "json" \in DOMAIN result.content
    THEN result.content.json.sections ELSE [name \in {} |-> <<>>]

Five == <<<<"C","r","i","t","i","c","a","l">>, <<"H","i","g","h">>, <<"M","e","d","i","u","m">>, <<"L","o","w">>, <<"I","n","f","o","r","m","a","t","i","o","n","a","l">>>>
FiveNames == {Five[i] : i \in 1..5}

\* the severity of a raw issue in capitalized form, and its rank (0 when it is
\* none of the five names)
Normalized(v) == capitalize(Get(v, "severity", <<>>))
Rank(v) == Position(Normalized(v), Five)

\* a finding without the provenance tag the aggregation adds
Untagged(v) == [k \in DOMAIN v \ {"source"} |-> v[k]]

\* the raw issues the call was given, per stream and together
GivenSlither == StreamFindings(call.analysis_results.slither, "vulnerabilities")
GivenMythril == StreamFindings(call.analysis_results.mythril, "issues")
Given == GivenSlither \o GivenMythril

InFilter(v) == Normalized(v) \in call.severity_filter

\* how many given issues of severity s pass the filter
Passing(s) ==
    IF s \in call.severity_filter
    THEN Cardinality({i \in 1..Len(Given) : Normalized(Given[i]) = s}) ELSE 0

Supported == {<<"M","a","r","k","d","o","w","n">>, <<"J","S","O","N">>}

(***************************************************************************)
(* The properties, by claim.                                               *)
(***************************************************************************)
\* C1: for every severity filter S, every finding in the filtered list has a
\* severity in S, and the severity counts, the risk score and every rendered
\* section are those of the given findings whose severity is in S: a finding
\* outside S contributes to none of them.
C1_FilterBeforeCountingAndScoring ==
    Returned =>
        /\ \A i \in 1..Len(filtered_vulnerabilities) : InFilter(filtered_vulnerabilities[i])
        /\ \A p \in Rendered("risk_matrix") :
              /\ \A s \in FiveNames : p.count[s] = Passing(s)
              /\ \A i \in 1..Len(p.rows) : p.rows[i].severity \in call.severity_filter
              /\ p.risk_score = 10 * Passing(<<"C","r","i","t","i","c","a","l">>) + 5 * Passing(<<"H","i","g","h">>)
                                + 3 * Passing(<<"M","e","d","i","u","m">>) + Passing(<<"L","o","w">>)
        /\ \A p \in Rendered("executive_summary") :
              /\ p.total = Len(SelectSeq(Given, InFilter))
              /\ p.critical_high = Passing(<<"C","r","i","t","i","c","a","l">>) + Passing(<<"H","i","g","h">>)
              /\ p.medium = Passing(<<"M","e","d","i","u","m">>)
              /\ p.low = Passing(<<"L","o","w">>) + Passing(<<"I","n","f","o","r","m","a","t","i","o","n","a","l">>)
        /\ \A p \in Rendered("vulnerability_details") :
              /\ \A i \in 1..Len(p.groups) : p.groups[i].severity \in call.severity_filter
              /\ SumSeq([i \in 1..Len(p.groups) |-> Len(p.groups[i].issues)]) = Len(SelectSeq(Given, InFilter))
        /\ \A p \in Rendered("recommendations") :
              Len(p.high_priority) + Len(p.medium_priority)
                  <= Passing(<<"C","r","i","t","i","c","a","l">>) + Passing(<<"H","i","g","h">>) + Passing(<<"M","e","d","i","u","m">>)
        /\ "vulnerabilities" \in DOMAIN JsonSections =>
              \A i \in 1..Len(JsonSections.vulnerabilities) : InFilter(JsonSections.vulnerabilities[i])
        /\ "executive_summary" \in DOMAIN JsonSections =>
              JsonSections.executive_summary.total_issues = Len(SelectSeq(Given, InFilter))

\* C1's case: a report with a risk matrix, of which the filter kept one given
\* finding and left out another whose severity is one of the five names
C1_Witness ==
    /\ Returned
    /\ Rendered("risk_matrix") # {}
    /\ \E i, j \in 1..Len(Given) :
          /\ InFilter(Given[i])
          /\ ~InFilter(Given[j]) /\ Normalized(Given[j]) \in FiveNames

\* C2: a raw issue whose severity is missing or none of the five names is kept
\* as Informational: whenever Informational is in the filter it is in the
\* filtered list and counted in the Informational bucket.
C2_UnrecognisedSeverityKeptAsInformational ==
    (Returned /\ <<"I","n","f","o","r","m","a","t","i","o","n","a","l">> \in call.severity_filter) =>
        LET unrecognised == {i \in 1..Len(Given) : Normalized(Given[i]) \notin FiveNames}
        IN  /\ \A i \in unrecognised :
                  \E j \in 1..Len(filtered_vulnerabilities) :
                      Untagged(filtered_vulnerabilities[j]) = Untagged(Given[i])
            /\ \A p \in Rendered("risk_matrix") :
                  p.count[<<"I","n","f","o","r","m","a","t","i","o","n","a","l">>] >= Cardinality(unrecognised)

\* C3: a call with a format other than Markdown and JSON fails and returns no
\* content.
C3_UnsupportedFormatReturnsNothing ==
    (Called /\ call.format_type \notin Supported) => result.kind # "return"

\* C6: the severity counts have exactly the five keys, and sum to the number of
\* findings in the filtered list.
C6_FiveCountsSumToFindings ==
    \A p \in Rendered("risk_matrix") :
        /\ DOMAIN p.count = FiveNames
        /\ SumSeq([i \in 1..5 |-> p.count[Five[i]]]) = Len(filtered_vulnerabilities)

\* C6's case: a risk matrix over a kept finding whose severity is spelled in
\* another case than the key it is counted under, with a zero count and a given
\* finding the filter left out
C6_Witness ==
    /\ Rendered("risk_matrix") # {}
    /\ \E i \in 1..Len(filtered_vulnerabilities) :
          filtered_vulnerabilities[i].severity # Normalized(filtered_vulnerabilities[i])
    /\ Len(filtered_vulnerabilities) < Len(Given)
    /\ \E p \in Rendered("risk_matrix") : \E s \in FiveNames : p.count[s] = 0

C8_AdapterFailureIsNotFatal ==
    (Called /\ (IsNone(call.analysis_results.slither)
                \/ call.analysis_results.mythril = MythrilRunner_analyze("timeout", <<>>))) =>
        /\ Returned
        /\ Len(filtered_vulnerabilities) = Len(SelectSeq(Given, InFilter))

\* every stream of the call is absent or holds no finding
EmptyInput ==
    /\ Called
    /\ ~IsNone(call.analysis_results.slither)
    /\ Given = <<>>

\* C9: with every stream empty or absent, a call with a supported format
\* returns normally: no finding, every count 0, risk score 0, risk level Low.
C9_EmptyInputIsNotAnError ==
    (EmptyInput /\ call.format_type \in Supported) =>
        /\ Returned
        /\ filtered_vulnerabilities = <<>>
        /\ \A p \in Rendered("risk_matrix") :
              /\ \A s \in FiveNames : p.count[s] = 0
              /\ p.rows = <<>>
              /\ p.risk_score = 0
              /\ p.banner = "Low Risk"
        /\ \A p \in Rendered("executive_summary") :
              p.total = 0 /\ p.critical_high = 0 /\ p.medium = 0 /\ p.low = 0
        /\ \A p \in Rendered("vulnerability_details") : p.groups = <<>>
        /\ "executive_summary" \in DOMAIN JsonSections =>
              JsonSections.executive_summary =
                  [total_issues |-> 0, critical_high |-> 0, medium |-> 0, low |-> 0]
        /\ "vulnerabilities" \in DOMAIN JsonSections => JsonSections.vulnerabilities = <<>>

\* C9's case: a Markdown report with a risk matrix from two absent streams
C9_Witness ==
    /\ EmptyInput
    /\ call.analysis_results.slither = Absent
    /\ call.analysis_results.mythril = Absent
    /\ Rendered("risk_matrix") # {}

\* the risk score of the given findings that pass the filter, by the weights
WeightedScore ==
    10 * Passing(<<"C","r","i","t","i","c","a","l">>) + 5 * Passing(<<"H","i","g","h">>) + 3 * Passing(<<"M","e","d","i","u","m">>) + Passing(<<"L","o","w">>)

\* C4: the reported risk score is min(100, 10*Critical + 5*High + 3*Medium +
\* Low) over the severity counts, and so always within 0..100.
C4_RiskScoreCappedAt100 ==
    \A p \in Rendered("risk_matrix") :
        /\ p.risk_score = (IF WeightedScore < 100 THEN WeightedScore ELSE 100)
        /\ p.risk_score \in 0..100

\* C5: the risk level shown is High when the reported score is above 30,
\* Medium when it is above 10 and at most 30, Low when it is at most 10.
C5_RiskLevelThresholds ==
    \A p \in Rendered("risk_matrix") :
        /\ p.risk_score > 30 => p.banner = "High Risk"
        /\ (10 < p.risk_score /\ p.risk_score <= 30) => p.banner = "Medium Risk"
        /\ p.risk_score <= 10 => p.banner = "Low Risk"

\* C5's case: a risk matrix whose score is exactly 30, the highest Medium
C5_Witness ==
    \E p \in Rendered("risk_matrix") : p.risk_score = 30 /\ p.banner = "Medium Risk"

\* the entries of a rendered Recommendations section, both lists
Listed(p) == p.high_priority \o p.medium_priority

\* C10: two kept findings with one title from different sources are listed in
\* Recommendations once, with the first one's recommendation text, in every
\* format, and VulnerabilityDetails lists both.
C10_RecommendationsListATitleOnce ==
    Returned =>
        \A i, j \in 1..Len(filtered_vulnerabilities) :
            LET first == filtered_vulnerabilities[i]
                second == filtered_vulnerabilities[j]
                title == first.title
                isFirst == \A k \in 1..(i - 1) : filtered_vulnerabilities[k].title # title
            IN  (i < j /\ isFirst /\ second.title = title /\ second.source # first.source) =>
                    /\ \A p \in Rendered("recommendations") :
                          LET at == {k \in 1..Len(Listed(p)) : Listed(p)[k].title = title}
                          IN  /\ Cardinality(at) = 1
                              /\ "recommendation" \in DOMAIN first =>
                                    \A k \in at : Listed(p)[k].recommendation = first.recommendation
                    /\ "recommendations" \in DOMAIN JsonSections =>
                          LET at == {k \in 1..Len(JsonSections.recommendations) :
                                        JsonSections.recommendations[k].issue = title}
                          IN  /\ Cardinality(at) = 1
                              /\ "recommendation" \in DOMAIN first =>
                                    \A k \in at : JsonSections.recommendations[k].recommendation
                                                      = first.recommendation
                    /\ \A p \in Rendered("vulnerability_details") :
                          SumSeq([g \in 1..Len(p.groups) |->
                                     Cardinality({k \in 1..Len(p.groups[g].issues) :
                                                     p.groups[g].issues[k].title = title})]) >= 2

\* the call just made has the arguments of the earlier call the caller kept
SameArguments == Called /\ previous # NoCall /\ previous.call = call

\* C11: two calls with equal analysis results, report name, format, sections
\* and severity filter return identical content, in Markdown and in JSON.
C11_RenderingIsReproducible ==
    (SameArguments /\ Returned /\ call.format_type \in Supported) =>
        result.content = previous.result.content

\* C12: a call leaves the caller's analysis_results, and every raw issue record
\* in it, as they were.
C12_InputLeftUnchanged ==
    Called => analysis_results = call.analysis_results

\* the given findings of a stream that pass the filter, each with its tag
KeptOf(given, tool) ==
    LET kept == SelectSeq(given, InFilter)
    IN  [i \in 1..Len(kept) |-> SetItem(kept[i], "source", tool)]

\* C13: in whichever order the adapters' results were stored, the finding list
\* is the kept findings of the Slither stream in their own order followed by
\* those of the Mythril stream in theirs, and the counts and the risk score are
\* those of the given findings that pass the filter.
C13_IndependentOfCompletionOrder ==
    Returned =>
        /\ filtered_vulnerabilities
               = KeptOf(GivenSlither, <<"S","l","i","t","h","e","r">>) \o KeptOf(GivenMythril, <<"M","y","t","h","r","i","l">>)
        /\ \A p \in Rendered("risk_matrix") :
              /\ \A s \in FiveNames : p.count[s] = Passing(s)
              /\ p.risk_score = WeightedScore

\* C13's case: Mythril's result was stored before Slither's, findings of both
\* are kept, and the risk matrix is rendered
C13_Witness ==
    /\ Returned
    /\ inserted = <<"mythril", "slither">>
    /\ Rendered("risk_matrix") # {}
    /\ \E i, j \in 1..Len(filtered_vulnerabilities) :
          /\ filtered_vulnerabilities[i].source = <<"S","l","i","t","h","e","r">>
          /\ filtered_vulnerabilities[j].source = <<"M","y","t","h","r","i","l">>

\* C14: after any sequence of calls, the result of a call is determined by its
\* arguments alone: it is the result of the earlier call with these arguments.
C14_ResultDeterminedByArgumentsAlone ==
    SameArguments => result = previous.result

\* the counts of the filtered list under the five names
Counted(s) == Cardinality({i \in 1..Len(filtered_vulnerabilities) :
                              Normalized(filtered_vulnerabilities[i]) = s})

\* C15: the counts read back from the executive summary of a JSON report are
\* those of the filtered list, and account for every finding in it.
C15_CountsRoundTripThroughJson ==
    "executive_summary" \in DOMAIN JsonSections =>
        LET extracted == JsonSections.executive_summary
        IN  /\ extracted.total_issues = Len(filtered_vulnerabilities)
            /\ extracted.critical_high = Counted(<<"C","r","i","t","i","c","a","l">>) + Counted(<<"H","i","g","h">>)
            /\ extracted.medium = Counted(<<"M","e","d","i","u","m">>)
            /\ extracted.low >= Counted(<<"L","o","w">>)
            /\ extracted.critical_high + extracted.medium + extracted.low
                   = Len(filtered_vulnerabilities)

\* the four counts of an executive summary are those of the given findings that
\* pass the filter, and the last three sum to the first
FourCounts(total, critical_high, medium, low) ==
    /\ total = Len(SelectSeq(Given, InFilter))
    /\ critical_high = Passing(<<"C","r","i","t","i","c","a","l">>) + Passing(<<"H","i","g","h">>)
    /\ medium = Passing(<<"M","e","d","i","u","m">>)
    /\ low = Passing(<<"L","o","w">>) + Passing(<<"I","n","f","o","r","m","a","t","i","o","n","a","l">>)
    /\ critical_high + medium + low = total

\* C16: the executive summary carries the same four counts in Markdown and in
\* JSON: total, Critical+High, Medium and Low+Informational, the last three
\* summing to the total.
C16_ExecutiveSummarySameInBothFormats ==
    Returned =>
        /\ \A p \in Rendered("executive_summary") :
              FourCounts(p.total, p.critical_high, p.medium, p.low)
        /\ "executive_summary" \in DOMAIN JsonSections =>
              FourCounts(JsonSections.executive_summary.total_issues,
                         JsonSections.executive_summary.critical_high,
                         JsonSections.executive_summary.medium,
                         JsonSections.executive_summary.low)

\* a given issue is in the filtered list
Kept(issue) ==
    \E j \in 1..Len(filtered_vulnerabilities) :
        Untagged(filtered_vulnerabilities[j]) = Untagged(issue)

\* C17: a raw issue is retained, and shown in the report, exactly when its
\* severity is a spelling, in any letter case, of a member of the filter.
C17_SeverityMatchingIgnoresCase ==
    Returned =>
        \A i \in 1..Len(Given) :
            LET spelled == Get(Given[i], "severity", <<>>)
                member == \E s \in call.severity_filter : lower(s) = lower(spelled)
            IN  /\ Kept(Given[i]) <=> member
                /\ \A p \in Rendered("vulnerability_details") :
                      member <=> \E g \in 1..Len(p.groups) :
                                    /\ lower(p.groups[g].severity) = lower(spelled)
                                    /\ p.groups[g].issues # <<>>
                /\ "vulnerabilities" \in DOMAIN JsonSections =>
                      (member <=> \E j \in 1..Len(JsonSections.vulnerabilities) :
                                     Untagged(JsonSections.vulnerabilities[j]) = Untagged(Given[i]))

\* C17's case: an issue spelled 'HIGH' is retained under a filter that holds
\* 'High' and shown in the details, and an issue of another severity is not
C17_Witness ==
    /\ Returned
    /\ <<"H","i","g","h">> \in call.severity_filter
    /\ Rendered("vulnerability_details") # {}
    /\ \E i, j \in 1..Len(Given) :
          /\ Get(Given[i], "severity", <<>>) = <<"H","I","G","H">> /\ Kept(Given[i])
          /\ "severity" \in DOMAIN Given[j] /\ ~Kept(Given[j])

\* C18: findings are not deduplicated at aggregation: the filtered list, and
\* the list a JSON report carries, hold one entry for every raw issue whose
\* severity passes the filter, whatever its title.
C18_NoDeduplicationAtAggregation ==
    Returned =>
        LET passing == Cardinality({i \in 1..Len(Given) : InFilter(Given[i])})
        IN  /\ Len(filtered_vulnerabilities) = passing
            /\ "vulnerabilities" \in DOMAIN JsonSections =>
                  Len(JsonSections.vulnerabilities) = passing

\* C18's case: the two streams report the same issue and both entries are kept
C18_Witness ==
    /\ Returned
    /\ \E i, j \in 1..Len(filtered_vulnerabilities) :
          /\ i < j
          /\ filtered_vulnerabilities[i].source # filtered_vulnerabilities[j].source
          /\ Untagged(filtered_vulnerabilities[i]) = Untagged(filtered_vulnerabilities[j])

\* C19: every finding of the filtered list carries the name of the stream it
\* came from, and the executive summary shows exactly the sources of the
\* filtered findings.
C19_Provenance ==
    Returned =>
        LET fromSlither == Len(SelectSeq(GivenSlither, InFilter))
            fromMythril == Len(SelectSeq(GivenMythril, InFilter))
        IN  /\ \A i \in 1..Len(filtered_vulnerabilities) :
                  filtered_vulnerabilities[i].source
                      = IF i <= fromSlither THEN <<"S","l","i","t","h","e","r">> ELSE <<"M","y","t","h","r","i","l">>
            /\ \A p \in Rendered("executive_summary") :
                  p.tools_used = (IF fromSlither > 0 THEN {<<"S","l","i","t","h","e","r">>} ELSE {})
                                 \cup (IF fromMythril > 0 THEN {<<"M","y","t","h","r","i","l">>} ELSE {})

\* C19's case: an executive summary over kept findings of both streams
C19_Witness ==
    /\ Returned
    /\ \E p \in Rendered("executive_summary") : p.tools_used = {<<"S","l","i","t","h","e","r">>, <<"M","y","t","h","r","i","l">>}

\* the section a requested name is rendered as; "" when there is no template
SectionNamed(section) ==
    CASE section = <<"E","x","e","c","u","t","i","v","e"," ","S","u","m","m","a","r","y">> -> "executive_summary"
      [] section = <<"V","u","l","n","e","r","a","b","i","l","i","t","y"," ","D","e","t","a","i","l","s">> -> "vulnerability_details"
      [] section = <<"C","o","d","e"," ","A","n","a","l","y","s","i","s">> -> "code_analysis"
      [] section = <<"R","e","c","o","m","m","e","n","d","a","t","i","o","n","s">> -> "recommendations"
      [] section = <<"R","i","s","k"," ","M","a","t","r","i","x">> -> "risk_matrix"
      [] OTHER -> ""

\* the requested sections that have a template, in the order requested
Requested ==
    LET known(section) == SectionNamed(section) # ""
    IN  SelectSeq(call.sections, known)

\* C20: a Markdown report is a title line with the report name, a timestamp
\* line, then the requested sections in the order requested, once for every
\* occurrence, each followed by one separator.
C20_MarkdownStructure ==
    (Returned /\ call.format_type = <<"M","a","r","k","d","o","w","n">>) =>
        LET parts == result.content.markdown
        IN  /\ Len(parts) = 3 + 2 * Len(Requested)
            /\ parts[1] = [part |-> "title", report_name |-> call.report_name]
            /\ parts[2].part = "generated"
            /\ parts[3] = Separator
            /\ \A k \in 1..Len(Requested) :
                  /\ parts[2 + 2 * k].part = "section"
                  /\ parts[2 + 2 * k].section = SectionNamed(Requested[k])
                  /\ parts[3 + 2 * k] = Separator

\* C20's case: a report of a list that names a section twice, around a section
\* without a template and another section
C20_Witness ==
    /\ Returned
    /\ call.format_type = <<"M","a","r","k","d","o","w","n">>
    /\ \E i, j \in 1..Len(call.sections) :
          i < j /\ call.sections[i] = call.sections[j]
    /\ Len(result.content.markdown) = 9

\* the identifiers of the requested sections
RequestedIdentifiers == {SectionNamed(call.sections[i]) : i \in 1..Len(call.sections)}

\* C21: the sections map of a JSON report is keyed by the
\* identifiers of the requested sections among executive_summary,
\* vulnerability_details and recommendations.
C21_JsonKeyedBySectionIdentifiers ==
    (Returned /\ call.format_type = <<"J","S","O","N">>) =>
        DOMAIN JsonSections
            = RequestedIdentifiers
              \cap {"executive_summary", "vulnerability_details", "recommendations"}

\* the kept findings of the given severities, in list order
KeptOfSeverities(severities) ==
    SelectSeq(filtered_vulnerabilities, LAMBDA v : Normalized(v) \in severities)

\* the entry the Recommendations section shows for a finding
ShownAs(v, fallback) ==
    [title |-> v.title,
     recommendation |-> IF "recommendation" \in DOMAIN v THEN v.recommendation ELSE fallback]

\* C22: the Recommendations section lists at most 5 Critical/High findings and
\* at most 5 Medium findings (the first ones kept), never a Low or
\* Informational finding, each with its own recommendation text or the generic
\* fallback text when it has none, and always has the fixed block of general
\* best practices, also when there are no findings.
C22_RecommendationsTopFive ==
    /\ (Returned /\ call.format_type = <<"M","a","r","k","d","o","w","n">>
           /\ \E i \in 1..Len(call.sections) : call.sections[i] = <<"R","e","c","o","m","m","e","n","d","a","t","i","o","n","s">>)
          => Rendered("recommendations") # {}
    /\ \A p \in Rendered("recommendations") :
          LET highs == KeptOfSeverities({<<"C","r","i","t","i","c","a","l">>, <<"H","i","g","h">>})
              mediums == KeptOfSeverities({<<"M","e","d","i","u","m">>})
              least(n) == IF n < 5 THEN n ELSE 5
          IN  /\ Len(p.high_priority) = least(Len(highs))
              /\ Len(p.medium_priority) = least(Len(mediums))
              /\ \A i \in 1..Len(p.high_priority) :
                    p.high_priority[i] = ShownAs(highs[i], <<"R","e","v","i","e","w"," ","a","n","d"," ","f","i","x"," ","t","h","i","s"," ","i","s","s","u","e">>)
              /\ \A i \in 1..Len(p.medium_priority) :
                    p.medium_priority[i] = ShownAs(mediums[i], <<"C","o","n","s","i","d","e","r"," ","a","d","d","r","e","s","s","i","n","g"," ","t","h","i","s"," ","i","s","s","u","e">>)
              /\ p.general = "General Security Best Practices"

\* C22's case: six Critical/High findings and a Low one are kept, five are
\* listed, one with its own text and one with the fallback text
C22_Witness ==
    \E p \in Rendered("recommendations") :
        /\ Len(KeptOfSeverities({<<"C","r","i","t","i","c","a","l">>, <<"H","i","g","h">>})) = 6
        /\ Len(KeptOfSeverities({<<"L","o","w">>})) = 1
        /\ Len(p.high_priority) = 5
        /\ p.high_priority[1].recommendation = <<"r", "H">>
        /\ p.high_priority[2].recommendation = <<"R","e","v","i","e","w"," ","a","n","d"," ","f","i","x"," ","t","h","i","s"," ","i","s","s","u","e">>
        /\ p.medium_priority = <<>>

\* the risk matrix of the kept findings and n more of one severity
MatrixWithMore(severity, n) ==
    LET more == [title |-> <<"U","s","e"," ","o","f"," ","t","x",".","o","r","i","g","i","n">>, description |-> <<"t","x",".","o","r","i","g","i","n">>,
                 severity |-> severity, source |-> <<"S","l","i","t","h","e","r">>]
    IN  _risk_matrix_template(filtered_vulnerabilities \o [i \in 1..n |-> more])

\* C23: of two count vectors that differ only in that one severity count is
\* larger in the second, the risk score of the second is greater than or equal
\* to that of the first.
C23_RiskScoreMonotone ==
    \A p \in Rendered("risk_matrix") :
        \A s \in FiveNames : \A n \in 1..2 :
            LET q == MatrixWithMore(lower(s), n)
            IN  /\ q.count = [p.count EXCEPT ![s] = @ + n]
                /\ q.risk_score >= p.risk_score

\* C23's case: a risk matrix that counts findings of every severity, with a
\* score above zero
C23_Witness ==
    \E p \in Rendered("risk_matrix") :
        /\ \A s \in FiveNames : p.count[s] >= 1
        /\ p.risk_score > 0
        /\ MatrixWithMore(<<"l","o","w">>, 1).risk_score > p.risk_score

\* C24: Informational findings never contribute to the risk score: adding any
\* number of Informational findings to the findings leaves the risk score and
\* the risk level unchanged, and the score is the one of the other findings.
C24_InformationalNeverCounts ==
    \A p \in Rendered("risk_matrix") :
        /\ p.risk_score = WeightedScore
        /\ \A n \in 0..3 :
              LET q == MatrixWithMore(<<"i","n","f","o","r","m","a","t","i","o","n","a","l">>, n)
              IN  /\ q.count[<<"I","n","f","o","r","m","a","t","i","o","n","a","l">>] = p.count[<<"I","n","f","o","r","m","a","t","i","o","n","a","l">>] + n
                  /\ q.risk_score = p.risk_score
                  /\ q.banner = p.banner

\* C24's case: a risk matrix that counts an Informational finding, with a score
\* of exactly 10, where one more point would raise the level
C24_Witness ==
    \E p \in Rendered("risk_matrix") :
        /\ p.count[<<"I","n","f","o","r","m","a","t","i","o","n","a","l">>] >= 1
        /\ p.risk_score = 10
        /\ p.banner = "Low Risk"

\* C25: the VulnerabilityDetails section groups the filtered findings into
\* severity buckets in the fixed order Critical, High, Medium, Low,
\* Informational; a bucket with no findings is omitted, each finding is in the
\* bucket of its own severity exactly once, and the findings of a bucket keep
\* their list order.
C25_SeverityBuckets ==
    \A p \in Rendered("vulnerability_details") :
        /\ \A g, h \in 1..Len(p.groups) :
              g < h => Position(p.groups[g].severity, Five) < Position(p.groups[h].severity, Five)
        /\ \A g \in 1..Len(p.groups) :
              LET own == KeptOfSeverities({p.groups[g].severity})
                  issues == p.groups[g].issues
              IN  /\ p.groups[g].severity \in FiveNames
                  /\ issues # <<>>
                  /\ Len(issues) = Len(own)
                  /\ \A i \in 1..Len(issues) :
                        /\ issues[i].number = i
                        /\ issues[i].title = own[i].title
                        /\ issues[i].tool = own[i].source
                        /\ issues[i].description = own[i].description
        /\ \A s \in FiveNames :
              KeptOfSeverities({s}) # <<>> => \E g \in 1..Len(p.groups) : p.groups[g].severity = s
        /\ SumSeq([g \in 1..Len(p.groups) |-> Len(p.groups[g].issues)])
               = Len(filtered_vulnerabilities)

\* C25's case: one bucket alone, Low, with a finding of each stream in list
\* order, their severities spelled in lower case
C25_Witness ==
    \E p \in Rendered("vulnerability_details") :
        /\ Len(p.groups) = 1
        /\ p.groups[1].severity = <<"L","o","w">>
        /\ Len(p.groups[1].issues) = 2
        /\ p.groups[1].issues[1].tool = <<"S","l","i","t","h","e","r">>
        /\ p.groups[1].issues[2].tool = <<"M","y","t","h","r","i","l">>

\* C26: the risk statement of the executive summary is the urgent one when the
\* Critical+High count is above 0, otherwise the recommended-action one when
\* the Medium count is above 0, otherwise the low-risk one; every executive
\* summary has exactly one of the three, also that of no findings.
C26_RiskStatementPriority ==
    /\ (Returned /\ call.format_type = <<"M","a","r","k","d","o","w","n">>
           /\ \E i \in 1..Len(call.sections) : call.sections[i] = <<"E","x","e","c","u","t","i","v","e"," ","S","u","m","m","a","r","y">>)
          => Rendered("executive_summary") # {}
    /\ \A p \in Rendered("executive_summary") :
          p.statement = (IF Passing(<<"C","r","i","t","i","c","a","l">>) + Passing(<<"H","i","g","h">>) > 0
                         THEN "IMMEDIATE ACTION REQUIRED"
                         ELSE IF Passing(<<"M","e","d","i","u","m">>) > 0 THEN "ACTION RECOMMENDED"
                         ELSE "LOW RISK")

\* C26's case: an executive summary over a High and a Medium finding, with the
\* urgent statement
C26_Witness ==
    \E p \in Rendered("executive_summary") :
        /\ p.critical_high > 0
        /\ p.medium > 0
        /\ p.statement = "IMMEDIATE ACTION REQUIRED"

\* the keyword table of the categories, row by row
KeywordTable ==
    <<[category |-> <<"R","e","e","n","t","r","a","n","c","y">>, words |-> {<<"r","e","e","n","t","r","a","n","c","y">>, <<"r","e","e","n","t","r","a","n","t">>}],
      [category |-> <<"A","r","i","t","h","m","e","t","i","c">>, words |-> {<<"o","v","e","r","f","l","o","w">>, <<"u","n","d","e","r","f","l","o","w">>, <<"a","r","i","t","h","m","e","t","i","c">>}],
      [category |-> <<"A","c","c","e","s","s"," ","C","o","n","t","r","o","l">>, words |-> {<<"a","c","c","e","s","s">>, <<"o","w","n","e","r">>, <<"a","u","t","h">>}],
      [category |-> <<"E","x","t","e","r","n","a","l"," ","C","a","l","l","s">>, words |-> {<<"u","n","c","h","e","c","k","e","d">>, <<"r","e","t","u","r","n">>, <<"c","a","l","l">>}],
      [category |-> <<"R","a","n","d","o","m","n","e","s","s">>, words |-> {<<"r","a","n","d","o","m">>, <<"t","i","m","e","s","t","a","m","p">>, <<"b","l","o","c","k">>}]>>

\* the rows of the table a title matches, whatever the case of its letters
MatchingRows(title) ==
    {r \in 1..Len(KeywordTable) : \E w \in KeywordTable[r].words : Contains(lower(title), w)}

\* the category of the earliest matching row, Other when no row matches
EarliestCategory(title) ==
    IF MatchingRows(title) = {} THEN <<"O","t","h","e","r">>
    ELSE KeywordTable[CHOOSE r \in MatchingRows(title) : \A q \in MatchingRows(title) : r <= q].category

TitleOf(v) == Get(v, "title", <<>>)

\* C27: the category of a finding is derived from its title alone by a
\* case-insensitive scan of the ordered keyword table in which the first
\* matching row wins, and Other when no row matches: the Code Analysis section
\* counts every kept finding under exactly that category.
C27_CategoryOfEarliestRow ==
    \A p \in Rendered("code_analysis") :
        LET cats == p.issue_categories
            under(c) == Cardinality({i \in 1..Len(filtered_vulnerabilities) :
                                        EarliestCategory(TitleOf(filtered_vulnerabilities[i])) = c})
        IN  /\ \A i, j \in 1..Len(cats) : cats[i].category = cats[j].category => i = j
            /\ \A i \in 1..Len(cats) :
                  /\ cats[i].issues > 0
                  /\ cats[i].issues = under(cats[i].category)
            /\ SumSeq([i \in 1..Len(cats) |-> cats[i].issues]) = Len(filtered_vulnerabilities)

\* C27's case: a kept finding whose title matches the rows Arithmetic and
\* External Calls, in capitals, counted under Arithmetic
C27_Witness ==
    \E p \in Rendered("code_analysis") :
        /\ \E i \in 1..Len(filtered_vulnerabilities) :
              /\ TitleOf(filtered_vulnerabilities[i]) = <<"U","n","c","h","e","c","k","e","d"," ","O","v","e","r","f","l","o","w">>
              /\ MatchingRows(TitleOf(filtered_vulnerabilities[i])) = {2, 4}
        /\ p.issue_categories = <<[category |-> <<"A","r","i","t","h","m","e","t","i","c">>, issues |-> 1]>>

\* the keywords of the four patterns the Code Analysis section flags
PatternWords ==
    [pattern \in {"Reentrancy", "Unchecked Calls", "Access Control", "Integer Issues"} |->
        CASE pattern = "Reentrancy" -> {<<"r","e","e","n","t","r","a","n">>}
          [] pattern = "Unchecked Calls" -> {<<"u","n","c","h","e","c","k","e","d">>}
          [] pattern = "Access Control" -> {<<"a","c","c","e","s","s">>, <<"o","w","n","e","r">>}
          [] pattern = "Integer Issues" -> {<<"o","v","e","r","f","l","o","w">>, <<"u","n","d","e","r","f","l","o","w">>}]

\* C28: the Code Analysis section flags a pattern if and only if the title of
\* some kept finding contains a keyword of the pattern; text in another field
\* of a finding never raises a flag.
C28_PatternFlaggedByTitleAlone ==
    \A p \in Rendered("code_analysis") :
        \A pattern \in DOMAIN PatternWords :
            (\E i \in 1..Len(p.patterns) : p.patterns[i] = pattern)
                <=> \E i \in 1..Len(filtered_vulnerabilities) :
                       \E w \in PatternWords[pattern] :
                           Contains(lower(TitleOf(filtered_vulnerabilities[i])), w)

\* the place in the filtered list of the first finding with a title
FirstWithTitle(title) ==
    CHOOSE i \in 1..Len(filtered_vulnerabilities) :
        /\ TitleOf(filtered_vulnerabilities[i]) = title
        /\ \A j \in 1..(i - 1) : TitleOf(filtered_vulnerabilities[j]) # title

\* C30: the recommendations list of the JSON report contains each distinct
\* finding title exactly once, taken from the first finding with that title;
\* every entry of priority High (severity critical or high) precedes every
\* entry of priority Medium (any other severity), and entries of equal
\* priority keep the order of their first occurrence in the finding list.
C30_RecommendationsData ==
    "recommendations" \in DOMAIN JsonSections =>
        LET data == JsonSections.recommendations
            titles == {TitleOf(filtered_vulnerabilities[i]) : i \in 1..Len(filtered_vulnerabilities)}
        IN  /\ {data[k].issue : k \in 1..Len(data)} = titles
            /\ Len(data) = Cardinality(titles)
            /\ \A k \in 1..Len(data) :
                  LET first == filtered_vulnerabilities[FirstWithTitle(data[k].issue)]
                  IN  /\ data[k].severity = first.severity
                      /\ data[k].recommendation
                             = (IF "recommendation" \in DOMAIN first THEN first.recommendation
                                ELSE <<"R","e","v","i","e","w"," ","a","n","d"," ","f","i","x"," ","t","h","i","s"," ","i","s","s","u","e">>)
                      /\ data[k].priority
                             = (IF Normalized(first) \in {<<"C","r","i","t","i","c","a","l">>, <<"H","i","g","h">>}
                                THEN <<"H","i","g","h">> ELSE <<"M","e","d","i","u","m">>)
            /\ \A k, l \in 1..Len(data) :
                  k < l =>
                      /\ ~(data[k].priority = <<"M","e","d","i","u","m">> /\ data[l].priority = <<"H","i","g","h">>)
                      /\ data[k].priority = data[l].priority =>
                            FirstWithTitle(data[k].issue) < FirstWithTitle(data[l].issue)

\* C30's case: the first kept finding is of medium severity, the second of high
\* severity and another title, and the list has the second one's entry first
C30_Witness ==
    /\ "recommendations" \in DOMAIN JsonSections
    /\ Len(filtered_vulnerabilities) = 2
    /\ Normalized(filtered_vulnerabilities[1]) = <<"M","e","d","i","u","m">>
    /\ Normalized(filtered_vulnerabilities[2]) = <<"H","i","g","h">>
    /\ Len(JsonSections.recommendations) = 2
    /\ JsonSections.recommendations[1].issue = filtered_vulnerabilities[2].title
    /\ JsonSections.recommendations[2].priority = <<"M","e","d","i","u","m">>

\* the steps an attack_steps value names: the elements of a list, or of the
\* JSON array the text is, and otherwise the lines of the text without the
\* blanks around them; the empty ones are no steps
NamedSteps(attack_steps) ==
    LET nonEmpty(seq) == SelectSeq(seq, LAMBDA step : strip(step) # <<>>)
    IN  IF IsNone(attack_steps) THEN <<>>
        ELSE IF attack_steps.py_type = "list" THEN nonEmpty(attack_steps.value)
        ELSE IF attack_steps.value # <<>> /\ Head(lstrip(attack_steps.value) \o <<"">>) = "["
                /\ ~JsonElements(Tail(lstrip(attack_steps.value)), TRUE).raised
        THEN nonEmpty(JsonElements(Tail(lstrip(attack_steps.value)), TRUE).value)
        ELSE nonEmpty([i \in 1..Len(split(attack_steps.value, NewLine)) |->
                          strip(split(attack_steps.value, NewLine)[i])])

\* C29: simulate_flashloan returns a simulation of type 'Flash Loan Attack'
\* whose execution list has exactly one record per non-empty step of
\* attack_steps, numbered 1..n in input order, with summary.total_steps equal
\* to n and successful_steps between 0 and n; the call appends exactly that
\* simulation to the simulator's history and changes no earlier entry.
C29_FlashLoanSimulation ==
    call.kind = "simulate_flashloan" =>
        /\ result.kind = "return"
        /\ LET simulation == result.simulation
               steps == NamedSteps(call.attack_steps)
               n == Len(steps)
           IN  /\ simulation.type = "Flash Loan Attack"
               /\ Len(simulation.execution) = n
               /\ \A i \in 1..n :
                     /\ simulation.execution[i].step = i
                     /\ simulation.execution[i].action = steps[i]
               /\ simulation.summary.total_steps = n
               /\ simulation.summary.successful_steps \in 0..n
               /\ simulations = Append(call.simulations, simulation)

====
